---- MODULE Spec2Model ----
(***************************************************************************)
(* Collection pipeline of the cannabis data aggregator.                    *)
(*                                                                         *)
(*   Spec         one invocation of run_collection_job                     *)
(*                (src/scheduler/manager.py), with any source and schedule *)
(*                argument, against the database.                          *)
(*   SpecOverlap  MaxJobs invocations for one enabled source running in    *)
(*                worker threads at once, their transactions interleaved.  *)
(*   SpecPag      APICollector offset / page pagination                    *)
(*                (src/collectors/api_collector.py) against a paged source.*)
(*   SpecSoda, SpecCursor, SpecVariant, SpecShape, SpecLink                *)
(*                the other pagination styles and response shapes of the   *)
(*                collectors.                                              *)
(*   SpecHttp     rate limiter and fetch_url of BaseCollector.             *)
(*   SpecNorm, SpecDate, SpecHeader, SpecHash                              *)
(*                functions of the normalizer, the CSV collector and the   *)
(*                record model applied on their own.                       *)
(*   SpecSync     SchedulerManager.sync_schedules against an edited        *)
(*                schedule table.                                          *)
(*   SpecExec     the executor of the scheduler, manual collections and    *)
(*                SchedulerManager.stop.                                   *)
(*                                                                         *)
(* Python None is written None (a string) for text fields and 0 for ids    *)
(* and timestamps: database ids and the logical clock start at 1.          *)
(***************************************************************************)
EXTENDS Integers, Sequences, FiniteSets, TLC

(* ------------------------------ bounds -------------------------------- *)

\* Worker threads that each execute one invocation of run_collection_job.
MaxJobs == 2
\* Largest number of full batches one collector stream delivers.
MaxBatches == 2
\* Rows in collection_schedules.
NumSchedules == 1
\* Largest number of records the paged source of SpecPag holds.
MaxN == 7
\* Largest page size of SpecPag.
MaxP == 3
\* pages a cursor-paginated source holds
MaxPages == 2
\* characters of a CSV header
MaxHeaderLen == 3
\* the seconds of the monotonic clock followed, and the requests one
\* collector instance sends
MaxClock == 3
MaxRequests == 2
\* rows ever inserted into the schedule table of the scheduler model
MaxRows == 2
\* collections run by request threads of the dashboard at once
MaxManual == 1

(* ------------------------- program constants -------------------------- *)

\* manager.py:273  batch_size = 500
batch_size == 500
\* base.py:29  the retries of the HTTP session
DEFAULT_MAX_RETRIES == 3
\* manager.py:47, 52  the thread pool and the job defaults of the scheduler
max_workers == 5
max_instances == 2

None == "None"

Jobs == 1..MaxJobs
ScheduleIds == 1..NumSchedules

\* Record counts, short of a full batch, after which a stream ends or fails.
Remainders == {0, 200}

(* ----------------------------- messages ------------------------------- *)

\* base.py:140  CollectionError raised by _get_url
NoUrlMsg == "No URL configured for source"
\* base.py:201-205, api_collector.py:172  CollectionError raised while streaming
CollectorErrors == {"Failed to parse JSON response"}
\* normalizer.py:244  len() of a non-string state value
NormalizerErrors == {"object of type 'int' has no len()"}
\* a rejected INSERT surfacing from session.commit() (database.py:128)
FlushErrors == {"(DataError) value too long for type character varying(5)"}
\* manager.py:237
NotFoundMsg == "DataSource not found"

(* ------------------------- seeded data_sources ------------------------ *)

\* models.py:18-48  the columns of DataSource that the job and its collector read.
\* url = FALSE stands for a NULL or empty url column.
SeedSources ==
    <<  [enabled |-> TRUE,  url |-> TRUE,  format |-> "json", pag_type |-> "offset"],
        [enabled |-> FALSE, url |-> TRUE,  format |-> "soda", pag_type |-> "none"],
        [enabled |-> TRUE,  url |-> FALSE, format |-> "csv",  pag_type |-> "none"],
        [enabled |-> TRUE,  url |-> TRUE,  format |-> "xml",  pag_type |-> "none"],
        [enabled |-> TRUE,  url |-> TRUE,  format |-> "api",  pag_type |-> "scroll"] >>

\* Ids a caller may pass: every seeded row, and one id with no row.
SourceArgs == 1..(Len(SeedSources) + 1)

VARIABLES
    sources,      \* data_sources: id -> row
    schedules,    \* collection_schedules: id -> [last_run]
    runs,         \* collection_runs: sequence, index = autoincrement id
    raw_records,  \* raw_records: run_id -> number of committed rows with that run_id
    logs,         \* collection_logs: sequence of rows
    now,          \* logical clock behind datetime.utcnow()
    pc,           \* position of each invocation
    job,          \* arguments and local variables of each invocation
    result,       \* what each invocation returned or raised
    hist,         \* history of each invocation: requests made, exception caught, rows committed
    pag,          \* a collector running on its own, and its upstream
    fn,           \* a function of the normalizer, the CSV collector or the
                  \* record model applied on its own: input and result
    aps           \* the SchedulerManager on its own: the schedule table, the
                  \* job store and the executor of its APScheduler

dbvars == <<sources, schedules, runs, raw_records, logs, now>>
jobvars == <<pc, job, result, hist>>
vars == <<sources, schedules, runs, raw_records, logs, now, pc, job, result, hist, pag, fn, aps>>

(* ----------------------------- collectors ----------------------------- *)

\* collectors/__init__.py:6-12
COLLECTOR_MAP ==
    [json |-> "APICollector", soda |-> "SODACollector", csv |-> "CSVCollector",
     geojson |-> "GeoJSONCollector", api |-> "APICollector"]

\* The factory without its default: an unknown format gets no collector.
get_collector_strict(fmt) ==
    IF fmt \in DOMAIN COLLECTOR_MAP THEN COLLECTOR_MAP[fmt] ELSE None

\* collectors/__init__.py:15-19  unknown formats fall back to APICollector
get_collector(fmt) ==
    IF fmt \in DOMAIN COLLECTOR_MAP THEN COLLECTOR_MAP[fmt] ELSE "APICollector"

\* api_collector.py:24-37  the fetcher APICollector.collect dispatches to;
\* an unrecognised type is fetched like "none"
PagDispatch(pag_type) ==
    IF pag_type \in {"none", "offset", "page", "cursor", "link"}
    THEN pag_type ELSE "none"

\* The request loop a collector's collect() runs once it has a URL:
\* api_collector.py:18-37 (APICollector), 247-287 (SODACollector),
\* csv_collector.py:29-35 (CSVCollector), geojson_collector.py:19-29 (GeoJSONCollector)
Fetcher(collector, pag_type) ==
    IF collector = "APICollector" THEN PagDispatch(pag_type)
    ELSE IF collector = "SODACollector" THEN "soda_offset"
    ELSE IF collector = "CSVCollector" THEN "download"
    ELSE IF collector = "GeoJSONCollector" THEN "geojson"
    ELSE None

(* ---------------------- offset and page pagination -------------------- *)

Min(a, b) == IF a < b THEN a ELSE b
Max(a, b) == IF a > b THEN a ELSE b

\* The paged source: records 1..N in a fixed order; a request for `limit`
\* records from `offset` on is answered with a JSON list of those it has.
ServeOffset(N, offset, limit) ==
    [i \in 1..Min(limit, Max(0, N - offset)) |-> offset + i]

\* The same source addressed by page number, its first page being first_page.
ServePage(N, page, first_page, size) ==
    ServeOffset(N, (page - first_page) * size, size)

\* api_collector.py:174-177  _extract_records of a top-level list: the list
extract_records(data) == data

\* The comparison off by one: a full page is taken for the last one.
LastPage_Inclusive(records, page_size) == Len(records) <= page_size

\* api_collector.py:75, 108  if len(records) < page_size: break
LastPage(records, page_size) == Len(records) < page_size

\* No function is applied on its own.
FnOff == [op |-> "off"]

\* No SchedulerManager is followed.
ApsOff == [mode |-> "off"]

\* The collector is not running (every state of Spec).
PagOff == [mode |-> "off", N |-> 0, page_size |-> 0, start_page |-> 0,
           offset |-> 0, page |-> 0, requests |-> <<>>, yielded |-> <<>>,
           pc |-> "done"]

\* api_collector.py:54-60  _fetch_offset_paginated up to its loop
OffsetStart(N, P) ==
    [mode |-> "offset", N |-> N, page_size |-> P, start_page |-> 0,
     offset |-> 0, page |-> 0, requests |-> <<>>, yielded |-> <<>>, pc |-> "loop"]

\* api_collector.py:87-93  _fetch_page_paginated up to its loop
PageStart(N, P, start_page) ==
    [mode |-> "page", N |-> N, page_size |-> P, start_page |-> start_page,
     offset |-> 0, page |-> start_page, requests |-> <<>>, yielded |-> <<>>,
     pc |-> "loop"]

(* ------------------------------ database ------------------------------ *)

\* session.get(CollectionRun, id) finds a row
HasRun(rs, id) == id \in DOMAIN rs

\* The autoincrement id the next INSERT INTO collection_runs is given.
NextRunId(rs) == Len(rs) + 1

\* manager.py:243-252  INSERT INTO collection_runs, returning the table
CreateRun(rs, source_db_id, schedule_db_id, t) ==
    Append(rs, [source_id |-> source_db_id, schedule_id |-> schedule_db_id,
                started_at |-> t, completed_at |-> 0, status |-> "running",
                records_fetched |-> 0, records_stored |-> 0, records_skipped |-> 0,
                error_message |-> None, duration_seconds |-> 0])

NoResult == [kind |-> "none", status |-> None, run_id |-> 0,
             records_fetched |-> 0, records_stored |-> 0, error |-> None]

IdleJob == [source_db_id |-> 0, schedule_db_id |-> 0, run_id |-> 0,
            format |-> None, url |-> FALSE, pag_type |-> None, collector |-> None,
            fetcher |-> None,
            records_fetched |-> 0, records_stored |-> 0, records_skipped |-> 0,
            batch |-> 0, status |-> None, error_message |-> None]

NoHist == [requested |-> FALSE, cause |-> "none", exc |-> None, yielded |-> 0,
           committed |-> 0, overlapped |-> FALSE]

Init ==
    /\ sources = SeedSources
    /\ schedules = [s \in ScheduleIds |-> [last_run |-> 0]]
    /\ runs = <<>>
    /\ raw_records = <<>>
    /\ logs = <<>>
    /\ now = 1
    /\ pc = [j \in Jobs |-> "idle"]
    /\ job = [j \in Jobs |-> IdleJob]
    /\ result = [j \in Jobs |-> NoResult]
    /\ hist = [j \in Jobs |-> NoHist]
    /\ pag = PagOff
    /\ fn = FnOff
    /\ aps = ApsOff

(* ----------------------- run_collection_job: load ---------------------- *)

InProgress == {"start", "collect", "flush", "flush_rest", "finalize"}

\* Invocations are numbered in the order they are made.
NextToInvoke(j) == pc[j] = "idle" /\ \A i \in Jobs : i < j => pc[i] # "idle"

\* The run row inserted before the enabled flag is looked at.
LoadAndCreateRun_Eager(rs, enabled, source_db_id, schedule_db_id, t) ==
    CreateRun(rs, source_db_id, schedule_db_id, t)

\* The run row left to the last transaction instead of the first.
LoadAndCreateRun_Deferred(rs, enabled, source_db_id, schedule_db_id, t) == rs

\* manager.py:234-253  the first transaction. A disabled source leaves the
\* function before the run is built; otherwise the run row is inserted and the
\* transaction commits when the with-block is left.
LoadAndCreateRun(rs, enabled, source_db_id, schedule_db_id, t) ==
    IF enabled THEN CreateRun(rs, source_db_id, schedule_db_id, t) ELSE rs

\* manager.py:236-237  no such row: ValueError leaves run_collection_job
InvokeMissing(j, src, sched) ==
    /\ NextToInvoke(j)
    /\ src \notin DOMAIN sources
    /\ pc' = [pc EXCEPT ![j] = "raised"]
    /\ job' = [job EXCEPT ![j] = [IdleJob EXCEPT !.source_db_id = src,
                                                 !.schedule_db_id = sched]]
    /\ result' = [result EXCEPT ![j] = [NoResult EXCEPT !.kind = "raise",
                                                        !.error = NotFoundMsg]]
    /\ UNCHANGED <<sources, schedules, runs, raw_records, logs, now, hist, pag, fn, aps>>

\* manager.py:238-240  disabled source: return {"status": "skipped"}
InvokeDisabled(j, src, sched) ==
    /\ NextToInvoke(j)
    /\ src \in DOMAIN sources
    /\ ~sources[src].enabled
    /\ runs' = LoadAndCreateRun(runs, sources[src].enabled, src, sched, now)
    /\ pc' = [pc EXCEPT ![j] = "returned"]
    /\ job' = [job EXCEPT ![j] = [IdleJob EXCEPT !.source_db_id = src,
                                                 !.schedule_db_id = sched]]
    /\ result' = [result EXCEPT ![j] = [NoResult EXCEPT !.kind = "return",
                                                        !.status = "skipped"]]
    /\ UNCHANGED <<sources, schedules, raw_records, logs, now, hist, pag, fn, aps>>

\* manager.py:242-264  enabled source: run row committed, snapshot taken,
\* counters zeroed
InvokeEnabled(j, src, sched) ==
    /\ NextToInvoke(j)
    /\ src \in DOMAIN sources
    /\ sources[src].enabled
    /\ runs' = LoadAndCreateRun(runs, sources[src].enabled, src, sched, now)
    /\ now' = now + 1
    /\ pc' = [pc EXCEPT ![j] = "start"]
    /\ job' = [job EXCEPT ![j] =
                 [IdleJob EXCEPT !.source_db_id = src, !.schedule_db_id = sched,
                                 !.run_id = NextRunId(runs),
                                 !.format = sources[src].format,
                                 !.url = sources[src].url,
                                 !.pag_type = sources[src].pag_type,
                                 !.status = "running"]]
    /\ hist' = [i \in Jobs |->
                 IF i = j
                 THEN [hist[i] EXCEPT !.overlapped =
                         \E o \in Jobs \ {j} : /\ pc[o] \in InProgress
                                               /\ job[o].source_db_id = src]
                 ELSE IF pc[i] \in InProgress /\ job[i].source_db_id = src
                      THEN [hist[i] EXCEPT !.overlapped = TRUE]
                      ELSE hist[i]]
    /\ UNCHANGED <<sources, schedules, raw_records, logs, result, pag, fn, aps>>

\* manager.py:266-273  collector and normalizer built from the snapshot; the
\* generator returned by collect() has not run yet
Start(j) ==
    /\ pc[j] = "start"
    /\ pc' = [pc EXCEPT ![j] = "collect"]
    /\ job' = [job EXCEPT ![j].collector = get_collector(job[j].format),
                          ![j].batch = 0]
    /\ UNCHANGED <<sources, schedules, runs, raw_records, logs, now, result, hist, pag, fn, aps>>

(* --------------------- run_collection_job: streaming ------------------- *)

\* The comparison off by one: a batch is flushed one record late.
BatchFull_Late(n) == n > batch_size

\* manager.py:313  if len(batch) >= batch_size
BatchFull(n) == n >= batch_size

\* Length at which the loop of manager.py:275-317 first flushes its batch.
FlushThreshold ==
    CHOOSE n \in 1..(batch_size + 1) :
        /\ BatchFull(n)
        /\ \A m \in 1..(n - 1) : ~BatchFull(m)

\* The handler reporting a fixed text instead of str(e).
ExceptHandler_Generic(jr, msg) ==
    [jr EXCEPT !.status = "failed", !.error_message = "Collection failed"]

\* manager.py:331-333  except Exception as e
ExceptHandler(jr, msg) ==
    [jr EXCEPT !.status = "failed", !.error_message = msg]

\* manager.py:276  records_fetched += 1, n times
Fetched(jr, n) == [jr EXCEPT !.records_fetched = @ + n]

\* manager.py:325  the loop and the last flush ended without an exception
Succeed(jr) == [jr EXCEPT !.status = "success"]

\* The exception the job's except clause caught, and where it came from.
Caught(h, cause, msg) == [h EXCEPT !.cause = cause, !.exc = msg]

\* collect() got past _get_url() and sends requests
Streaming(jr) == [jr EXCEPT !.fetcher = Fetcher(jr.collector, jr.pag_type)]

\* base.py:136-141  collect() starts with _get_url(): a source without url
\* raises CollectionError at the first next(), before any request
CollectNoUrl(j) ==
    /\ pc[j] = "collect"
    /\ ~job[j].url
    /\ job' = [job EXCEPT ![j] = ExceptHandler(job[j], NoUrlMsg)]
    /\ hist' = [hist EXCEPT ![j] = Caught(hist[j], "config", NoUrlMsg)]
    /\ pc' = [pc EXCEPT ![j] = "finalize"]
    /\ UNCHANGED <<sources, schedules, runs, raw_records, logs, now, result, pag, fn, aps>>

\* manager.py:275-313  the collector yields enough records to fill the batch;
\* each is counted, normalized, hashed and appended
CollectFull(j) ==
    /\ pc[j] = "collect"
    /\ job[j].url
    /\ job[j].records_fetched + FlushThreshold <= MaxBatches * batch_size
    /\ job' = [job EXCEPT ![j] = [Fetched(Streaming(job[j]), FlushThreshold - job[j].batch)
                                     EXCEPT !.batch = FlushThreshold]]
    /\ hist' = [hist EXCEPT ![j].requested = TRUE,
                            ![j].yielded = @ + FlushThreshold - job[j].batch]
    /\ pc' = [pc EXCEPT ![j] = "flush"]
    /\ UNCHANGED <<sources, schedules, runs, raw_records, logs, now, result, pag, fn, aps>>

\* manager.py:275-325  the collector yields n more records and is exhausted
CollectEnd(j, n) ==
    /\ pc[j] = "collect"
    /\ job[j].url
    /\ job[j].batch + n < FlushThreshold
    /\ hist' = [hist EXCEPT ![j].requested = TRUE, ![j].yielded = @ + n]
    /\ IF job[j].batch + n > 0
       THEN /\ job' = [job EXCEPT ![j] = [Fetched(Streaming(job[j]), n) EXCEPT !.batch = @ + n]]
            /\ pc' = [pc EXCEPT ![j] = "flush_rest"]
       ELSE /\ job' = [job EXCEPT ![j] = Succeed(Streaming(job[j]))]
            /\ pc' = [pc EXCEPT ![j] = "finalize"]
    /\ UNCHANGED <<sources, schedules, runs, raw_records, logs, now, result, pag, fn, aps>>

\* manager.py:275, 331-334  the collector yields n more records, then raises
CollectorRaises(j, n, msg) ==
    /\ pc[j] = "collect"
    /\ job[j].url
    /\ job[j].batch + n < FlushThreshold
    /\ job' = [job EXCEPT ![j] =
                 ExceptHandler([Fetched(Streaming(job[j]), n) EXCEPT !.batch = @ + n], msg)]
    /\ hist' = [hist EXCEPT ![j] = [Caught(hist[j], "collector", msg)
                                       EXCEPT !.requested = TRUE, !.yielded = @ + n]]
    /\ pc' = [pc EXCEPT ![j] = "finalize"]
    /\ UNCHANGED <<sources, schedules, runs, raw_records, logs, now, result, pag, fn, aps>>

\* manager.py:276-279, 331-334  n more records are handled, then
\* normalizer.normalize raises on the next one, which is already counted
NormalizerRaises(j, n, msg) ==
    /\ pc[j] = "collect"
    /\ job[j].url
    /\ job[j].batch + n < FlushThreshold
    /\ job' = [job EXCEPT ![j] =
                 ExceptHandler([Fetched(Streaming(job[j]), n + 1) EXCEPT !.batch = @ + n], msg)]
    /\ hist' = [hist EXCEPT ![j] = [Caught(hist[j], "normalizer", msg)
                                       EXCEPT !.requested = TRUE, !.yielded = @ + n + 1]]
    /\ pc' = [pc EXCEPT ![j] = "finalize"]
    /\ UNCHANGED <<sources, schedules, runs, raw_records, logs, now, result, pag, fn, aps>>

(* ---------------------- run_collection_job: flushing ------------------- *)

\* Records built without run_id (the column is nullable).
RowKey_NoRun(jr) == <<0, jr.source_db_id>>

\* raw_records rows are keyed by the run_id and source_id they carry
\* (manager.py:286-287)
RowKey(jr) == <<jr.run_id, jr.source_db_id>>

Rows(rr, key) == IF key \in DOMAIN rr THEN rr[key] ELSE 0

\* No rollback: the rows of a batch whose commit fails stay in the table.
CommitBatch_NoRollback(rr, key, n, ok) ==
    [k \in DOMAIN rr \cup {key} |-> IF k = key THEN Rows(rr, key) + n ELSE rr[k]]

\* manager.py:391-400, database.py:125-133  session.add for every record of the
\* batch, then commit; a failing commit is rolled back as a whole
CommitBatch(rr, key, n, ok) ==
    IF ok
    THEN [k \in DOMAIN rr \cup {key} |-> IF k = key THEN Rows(rr, key) + n ELSE rr[k]]
    ELSE rr

\* manager.py:314-317, 321-323  counters after a flush that returned stored
AfterFlush(jr, stored) ==
    [jr EXCEPT !.records_stored = @ + stored,
               !.records_skipped = @ + (jr.batch - stored),
               !.batch = 0]

\* manager.py:380-403  _flush_batch commits and returns len(batch)
Flush(j) ==
    /\ pc[j] \in {"flush", "flush_rest"}
    /\ raw_records' = CommitBatch(raw_records, RowKey(job[j]), job[j].batch, TRUE)
    /\ hist' = [hist EXCEPT ![j].committed = @ + job[j].batch]
    /\ IF pc[j] = "flush"
       THEN /\ job' = [job EXCEPT ![j] = AfterFlush(job[j], job[j].batch)]
            /\ pc' = [pc EXCEPT ![j] = "collect"]
       ELSE /\ job' = [job EXCEPT ![j] = Succeed(AfterFlush(job[j], job[j].batch))]
            /\ pc' = [pc EXCEPT ![j] = "finalize"]
    /\ UNCHANGED <<sources, schedules, runs, logs, now, result, pag, fn, aps>>

\* database.py:129-131, manager.py:331-334  the commit of the batch raises:
\* session_scope rolls back and re-raises into the job's except clause
FlushFails(j, msg) ==
    /\ pc[j] \in {"flush", "flush_rest"}
    /\ raw_records' = CommitBatch(raw_records, RowKey(job[j]), job[j].batch, FALSE)
    /\ job' = [job EXCEPT ![j] = ExceptHandler(job[j], msg)]
    /\ hist' = [hist EXCEPT ![j] = Caught(hist[j], "flush", msg)]
    /\ pc' = [pc EXCEPT ![j] = "finalize"]
    /\ UNCHANGED <<sources, schedules, runs, logs, now, result, pag, fn, aps>>

(* --------------------- run_collection_job: finalizing ------------------ *)

\* The UPDATE keyed by the source instead of the run id: every run of the
\* job's source that still reads running is finalized.
FinalizeRun_BySource(rs, id, jr, t) ==
    [r \in DOMAIN rs |->
        IF rs[r].source_id = jr.source_db_id /\ rs[r].status = "running"
        THEN [rs[r] EXCEPT !.completed_at = t,
                           !.status = jr.status,
                           !.records_fetched = jr.records_fetched,
                           !.records_stored = jr.records_stored,
                           !.records_skipped = jr.records_skipped,
                           !.error_message = jr.error_message,
                           !.duration_seconds = t - rs[r].started_at]
        ELSE rs[r]]

\* manager.py:338-348  UPDATE of the job's own run row, if it is found
FinalizeRun(rs, id, jr, t) ==
    IF HasRun(rs, id)
    THEN [rs EXCEPT ![id] = [@ EXCEPT !.completed_at = t,
                                      !.status = jr.status,
                                      !.records_fetched = jr.records_fetched,
                                      !.records_stored = jr.records_stored,
                                      !.records_skipped = jr.records_skipped,
                                      !.error_message = jr.error_message,
                                      !.duration_seconds = t - rs[id].started_at]]
    ELSE rs

\* manager.py:351-354  last_run of the schedule that triggered the job
UpdateLastRun(sch, schedule_db_id, t) ==
    IF schedule_db_id # 0 /\ schedule_db_id \in DOMAIN sch
    THEN [sch EXCEPT ![schedule_db_id].last_run = t]
    ELSE sch

\* The summary logged at INFO whatever the status.
LogLevel_AlwaysInfo(status) == "INFO"

\* manager.py:360
LogLevel(status) == IF status = "success" THEN "INFO" ELSE "ERROR"

\* manager.py:357-369  the summary CollectionLog row
SummaryLog(jr) ==
    [run_id |-> jr.run_id, source_id |-> jr.source_db_id,
     level |-> LogLevel(jr.status), status |-> jr.status,
     records_fetched |-> jr.records_fetched,
     records_stored |-> jr.records_stored, error |-> jr.error_message]

\* manager.py:371-377  the returned summary
Summary(jr) ==
    [kind |-> "return", status |-> jr.status, run_id |-> jr.run_id,
     records_fetched |-> jr.records_fetched,
     records_stored |-> jr.records_stored, error |-> jr.error_message]

\* manager.py:336-377  the last transaction, and the return
Finalize(j) ==
    /\ pc[j] = "finalize"
    /\ runs' = FinalizeRun(runs, job[j].run_id, job[j], now)
    /\ schedules' = UpdateLastRun(schedules, job[j].schedule_db_id, now)
    /\ logs' = Append(logs, SummaryLog(job[j]))
    /\ now' = now + 1
    /\ result' = [result EXCEPT ![j] = Summary(job[j])]
    /\ pc' = [pc EXCEPT ![j] = "returned"]
    /\ UNCHANGED <<sources, raw_records, job, hist, pag, fn, aps>>

\* The process running the job is killed between two steps: its local
\* variables are gone (the model keeps the arguments and the run id to name the
\* run it left behind), committed rows stay.
Crash(j) ==
    /\ pc[j] \in InProgress
    /\ pc' = [pc EXCEPT ![j] = "crashed"]
    /\ job' = [job EXCEPT ![j] = [IdleJob EXCEPT !.source_db_id = job[j].source_db_id,
                                                 !.schedule_db_id = job[j].schedule_db_id,
                                                 !.run_id = job[j].run_id]]
    /\ hist' = [hist EXCEPT ![j] = [NoHist EXCEPT !.requested = hist[j].requested]]
    /\ UNCHANGED <<sources, schedules, runs, raw_records, logs, now, result, pag, fn, aps>>

\* The slot of the first invocation.
FirstJob == {j \in Jobs : \A i \in Jobs : j <= i}

Next ==
    \E j \in FirstJob :
        \/ \E src \in SourceArgs, sched \in {0} \cup ScheduleIds :
              \/ InvokeMissing(j, src, sched)
              \/ InvokeDisabled(j, src, sched)
              \/ InvokeEnabled(j, src, sched)
        \/ Start(j)
        \/ CollectNoUrl(j)
        \/ CollectFull(j)
        \/ \E n \in Remainders : CollectEnd(j, n)
        \/ \E n \in Remainders, msg \in CollectorErrors : CollectorRaises(j, n, msg)
        \/ \E n \in Remainders, msg \in NormalizerErrors : NormalizerRaises(j, n, msg)
        \/ Flush(j)
        \/ \E msg \in FlushErrors : FlushFails(j, msg)
        \/ Finalize(j)
        \/ Crash(j)

Spec == Init /\ [][Next]_vars

\* The source the overlapping invocations collect: enabled, with a URL.
OverlapSource ==
    CHOOSE s \in DOMAIN SeedSources :
        SeedSources[s].enabled /\ SeedSources[s].url

\* manager.py:46-53, 172-176  the executor's threads and manual triggers run
\* run_collection_job for the same source at the same time
NextOverlap ==
    \E j \in Jobs :
        \/ InvokeEnabled(j, OverlapSource, 0)
        \/ Start(j)
        \/ CollectFull(j)
        \/ \E n \in Remainders : CollectEnd(j, n)
        \/ \E n \in Remainders, msg \in CollectorErrors : CollectorRaises(j, n, msg)
        \/ \E n \in Remainders, msg \in NormalizerErrors : NormalizerRaises(j, n, msg)
        \/ Flush(j)
        \/ \E msg \in FlushErrors : FlushFails(j, msg)
        \/ Finalize(j)
        \/ Crash(j)

SpecOverlap == Init /\ [][NextOverlap]_vars

(* ------------------- APICollector: offset / page loops ----------------- *)

jobstate == <<sources, schedules, runs, raw_records, logs, now, pc, job, result, hist>>

\* api_collector.py:62-81  one iteration of the while loop of
\* _fetch_offset_paginated: request, extract, yield, decide, advance
FetchOffsetPage ==
    /\ pag.mode = "offset"
    /\ pag.pc = "loop"
    /\ LET records == extract_records(ServeOffset(pag.N, pag.offset, pag.page_size))
           asked == Append(pag.requests, pag.offset)
       IN  IF Len(records) = 0
           THEN pag' = [pag EXCEPT !.requests = asked, !.pc = "done"]
           ELSE IF LastPage(records, pag.page_size)
                THEN pag' = [pag EXCEPT !.requests = asked,
                                        !.yielded = @ \o records, !.pc = "done"]
                ELSE pag' = [pag EXCEPT !.requests = asked,
                                        !.yielded = @ \o records,
                                        !.offset = @ + pag.page_size]
    /\ UNCHANGED <<jobstate, fn, aps>>

\* api_collector.py:95-111  one iteration of the while loop of
\* _fetch_page_paginated
FetchPagePage ==
    /\ pag.mode = "page"
    /\ pag.pc = "loop"
    /\ LET records == extract_records(
                          ServePage(pag.N, pag.page, pag.start_page, pag.page_size))
           asked == Append(pag.requests, pag.page)
       IN  IF Len(records) = 0
           THEN pag' = [pag EXCEPT !.requests = asked, !.pc = "done"]
           ELSE IF LastPage(records, pag.page_size)
                THEN pag' = [pag EXCEPT !.requests = asked,
                                        !.yielded = @ \o records, !.pc = "done"]
                ELSE pag' = [pag EXCEPT !.requests = asked,
                                        !.yielded = @ \o records,
                                        !.page = @ + 1]
    /\ UNCHANGED <<jobstate, fn, aps>>

\* The configured first page number of a page-paginated source
\* (api_collector.py:93, default 1).
StartPages == {0, 1}

InitPag ==
    /\ sources = SeedSources
    /\ schedules = [s \in ScheduleIds |-> [last_run |-> 0]]
    /\ runs = <<>>
    /\ raw_records = <<>>
    /\ logs = <<>>
    /\ now = 1
    /\ pc = [j \in Jobs |-> "idle"]
    /\ job = [j \in Jobs |-> IdleJob]
    /\ result = [j \in Jobs |-> NoResult]
    /\ hist = [j \in Jobs |-> NoHist]
    /\ fn = FnOff
    /\ aps = ApsOff
    /\ \E N \in 0..MaxN, P \in 1..MaxP :
          \/ pag = OffsetStart(N, P)
          \/ \E sp \in StartPages : pag = PageStart(N, P, sp)

NextPag == FetchOffsetPage \/ FetchPagePage

SpecPag == InitPag /\ [][NextPag]_vars

(* ------------------------ SODACollector.collect ------------------------ *)

\* api_collector.py:245  SODA_LIMIT, the Socrata maximum per request
SODA_LIMIT == 5000

\* The scenario of the specification: an endpoint holding 12,000 rows, two
\* full pages of SODA_LIMIT and a short one.
ScenarioRows == 2 * SODA_LIMIT + 2000

\* The database untouched and no invocation of the job running: the state
\* around a collector or a normalizer exercised on its own.
NoJobs ==
    /\ sources = SeedSources
    /\ schedules = [s \in ScheduleIds |-> [last_run |-> 0]]
    /\ runs = <<>>
    /\ raw_records = <<>>
    /\ logs = <<>>
    /\ now = 1
    /\ pc = [j \in Jobs |-> "idle"]
    /\ job = [j \in Jobs |-> IdleJob]
    /\ result = [j \in Jobs |-> NoResult]
    /\ hist = [j \in Jobs |-> NoHist]

\* A response body that parsed as a JSON list.
JList(items) == [kind |-> "list", items |-> items]

\* api_collector.py:251-252  int(pagination.get("page_size", self.SODA_LIMIT))
SodaPageSize(pagination) ==
    IF "page_size" \in DOMAIN pagination THEN pagination.page_size ELSE SODA_LIMIT

\* The offset left where it was.
NextOffset_Stuck(offset, page_size) == offset

\* api_collector.py:286  offset += page_size
NextOffset(offset, page_size) == offset + page_size

\* api_collector.py:249-255  SODACollector.collect up to its loop
SodaStart(N, pagination) ==
    [mode |-> "soda", N |-> N, page_size |-> SodaPageSize(pagination),
     offset |-> 0, requests |-> <<>>, pages |-> <<>>, yielded |-> <<>>,
     raised |-> None, pc |-> "loop"]

\* api_collector.py:257-287  one iteration of the while loop of
\* SODACollector.collect: request with $limit and $offset, parse, check the
\* type, yield, decide, advance
FetchSodaPage ==
    /\ pag.mode = "soda"
    /\ pag.pc = "loop"
    /\ LET body == JList(ServeOffset(pag.N, pag.offset, pag.page_size))
           asked == Append(pag.requests,
                           [offset |-> pag.offset, limit |-> pag.page_size])
           got == Append(pag.pages, Len(body.items))
       IN  IF body.kind # "list"
           THEN pag' = [pag EXCEPT !.requests = asked, !.pc = "done",
                                   !.raised = "CollectionError"]
           ELSE IF Len(body.items) = 0
           THEN pag' = [pag EXCEPT !.requests = asked, !.pages = got, !.pc = "done"]
           ELSE IF LastPage(body.items, pag.page_size)
                THEN pag' = [pag EXCEPT !.requests = asked, !.pages = got,
                                        !.yielded = @ \o body.items, !.pc = "done"]
                ELSE pag' = [pag EXCEPT !.requests = asked, !.pages = got,
                                        !.yielded = @ \o body.items,
                                        !.offset = NextOffset(@, pag.page_size)]
    /\ UNCHANGED <<jobstate, fn, aps>>

\* The pagination descriptors of a SODA source: none, or a page size.
SodaDescriptors ==
    {[type |-> "offset"]} \cup {[type |-> "offset", page_size |-> P] : P \in 1..MaxP}

\* The endpoints and descriptors exercised: small ones, and the scenario with
\* no page size, the largest one and one configured above it.
SodaCases ==
    ((0..MaxN) \X SodaDescriptors)
        \cup {<<ScenarioRows, [type |-> "offset"]>>,
              <<ScenarioRows, [type |-> "offset", page_size |-> SODA_LIMIT]>>,
              <<ScenarioRows, [type |-> "offset", page_size |-> 2 * SODA_LIMIT]>>}

InitSoda ==
    /\ NoJobs
    /\ fn = FnOff
    /\ aps = ApsOff
    /\ \E c \in SodaCases : pag = SodaStart(c[1], c[2])

NextSoda == FetchSodaPage

SpecSoda == InitSoda /\ [][NextSoda]_vars

(* ----------------- APICollector: cursor pagination -------------------- *)

\* Lengths of the pages a cursor-paginated source serves.
PageLens == {0, 1, 2}

\* A cursor-paginated source of M pages: page c holds len[c] records and is
\* served with the cursor next[c], 0 standing for no cursor in the response.
\* A request without cursor is answered with page 1, one with cursor c with
\* page c.
CursorSources ==
    UNION {[next : [1..M -> 0..M], len : [1..M -> PageLens]] : M \in 1..MaxPages}

\* The records of page c.
PageRecords(src, c) == [k \in 1..src.len[c] |-> <<c, k>>]

\* The response to a request carrying the cursor parameter c (0: none).
ServeCursor(src, c) ==
    LET page == IF c = 0 THEN 1 ELSE c
    IN  [records |-> PageRecords(src, page), next_cursor |-> src.next[page]]

\* What is remembered of an unbounded run: its first MaxPages + 1 requests.
HistoryLen == MaxPages + 1
Remember(h, x) == IF Len(h) < HistoryLen THEN Append(h, x) ELSE h

\* The cursor parameter left as it was.
CursorParam_Dropped(param, cursor) == param

\* api_collector.py:127-128  if cursor: params[cursor_param] = cursor
CursorParam(param, cursor) == IF cursor # 0 THEN cursor ELSE param

\* api_collector.py:117-124  _fetch_cursor_paginated up to its loop
CursorStart(src) ==
    [mode |-> "cursor", src |-> src, cursor |-> 0, param |-> 0,
     resp |-> [records |-> <<>>, next_cursor |-> 0],
     requests |-> <<>>, returned |-> <<>>, yielded |-> <<>>, pc |-> "loop"]

\* api_collector.py:127-132  the request of one iteration: the cursor, when
\* there is one, goes into the parameters; fetch, parse, extract
SendCursorRequest ==
    /\ pag.mode = "cursor"
    /\ pag.pc = "loop"
    /\ LET param == CursorParam(pag.param, pag.cursor)
           resp == ServeCursor(pag.src, param)
       IN  pag' = [pag EXCEPT !.param = param,
                              !.resp = [resp EXCEPT !.records = extract_records(@)],
                              !.requests = Remember(@, param),
                              !.returned = Remember(@, resp.next_cursor),
                              !.pc = "got"]
    /\ UNCHANGED <<jobstate, fn, aps>>

\* api_collector.py:134-141  the rest of the iteration: yield the records,
\* read the next cursor, break when there is none or the page was empty
YieldCursorPage ==
    /\ pag.mode = "cursor"
    /\ pag.pc = "got"
    /\ LET cursor == pag.resp.next_cursor
       IN  pag' = [pag EXCEPT !.yielded = Remember(@, pag.resp.records),
                              !.cursor = cursor,
                              !.pc = IF cursor = 0 \/ Len(pag.resp.records) = 0
                                     THEN "done" ELSE "loop"]
    /\ UNCHANGED <<jobstate, fn, aps>>

InitCursor ==
    /\ NoJobs
    /\ fn = FnOff
    /\ aps = ApsOff
    /\ \E src \in CursorSources : pag = CursorStart(src)

NextCursor == SendCursorRequest \/ YieldCursorPage

SpecCursor == InitCursor /\ [][NextCursor]_vars

\* The generator is driven by the job's for loop, which asks for the next
\* record as long as there is one: an iteration that can be taken is taken.
SpecCursorFair == SpecCursor /\ WF_vars(NextCursor)

(* --------------------------- response bodies --------------------------- *)

\* Parsed JSON values: lists of records, objects, strings, numbers and null.
JDict(fields) == [kind |-> "dict", fields |-> fields]
JStr(value) == [kind |-> "str", value |-> value]
JNum == [kind |-> "num"]
JNull == [kind |-> "null"]

\* api_collector.py:181  the wrapper keys, in the order they are tried
WrapperKeys == <<"data", "results", "records", "items", "features", "hits">>

\* isinstance(data[key], list) for a key of a dict
HoldsList(body, key) ==
    key \in DOMAIN body.fields /\ body.fields[key].kind = "list"

\* The wrapper keys of a dict that hold a list.
ListKeys(body) == {i \in DOMAIN WrapperKeys : HoldsList(body, WrapperKeys[i])}

\* api_collector.py:185-188  the Elasticsearch wrapper: data["hits"] is a dict
\* whose "hits", when a list, holds the records
ElasticHits(body) ==
    IF "hits" \in DOMAIN body.fields /\ body.fields["hits"].kind = "dict"
    THEN LET inner == body.fields["hits"].fields
         IN  IF "hits" \notin DOMAIN inner THEN [found |-> TRUE, records |-> <<>>]
             ELSE IF inner["hits"].kind = "list"
                  THEN [found |-> TRUE, records |-> inner["hits"].items]
                  ELSE [found |-> FALSE, records |-> <<>>]
    ELSE [found |-> FALSE, records |-> <<>>]

\* api_collector.py:174-190  _extract_records: a list as it is, the first
\* wrapper key holding a list, the Elasticsearch hits, and [] for anything else
ExtractRecords(body) ==
    IF body.kind = "list" THEN [raised |-> None, records |-> extract_records(body.items)]
    ELSE IF body.kind = "dict" /\ ListKeys(body) # {}
    THEN [raised |-> None,
          records |-> body.fields[WrapperKeys[
                          CHOOSE i \in ListKeys(body) :
                              \A k \in ListKeys(body) : i <= k]].items]
    ELSE IF body.kind = "dict" /\ ElasticHits(body).found
    THEN [raised |-> None, records |-> ElasticHits(body).records]
    ELSE [raised |-> None, records |-> <<>>]

\* api_collector.py:271-274  SODACollector.collect: a body that is no list
\* raises CollectionError
SodaRecords(body) ==
    IF body.kind # "list" THEN [raised |-> "CollectionError", records |-> <<>>]
    ELSE [raised |-> None, records |-> body.items]

\* geojson_collector.py:36-56  GeoJSONCollector.collect after parsing:
\* geojson.get on a body that is no dict is an AttributeError; the features of
\* a FeatureCollection are iterated (TypeError when null; strings and numbers
\* among them are flattened to nothing); a Feature is one record; any other
\* type raises CollectionError
GeoJSONRecords(body) ==
    IF body.kind # "dict" THEN [raised |-> "AttributeError", records |-> <<>>]
    ELSE LET type == IF "type" \in DOMAIN body.fields THEN body.fields["type"]
                     ELSE JStr("")
         IN  IF type = JStr("FeatureCollection")
             THEN IF "features" \notin DOMAIN body.fields
                  THEN [raised |-> None, records |-> <<>>]
                  ELSE IF body.fields["features"].kind = "list"
                  THEN [raised |-> None, records |-> body.fields["features"].items]
                  ELSE IF body.fields["features"].kind \in {"null", "num"}
                  THEN [raised |-> "TypeError", records |-> <<>>]
                  ELSE [raised |-> None, records |-> <<>>]
             ELSE IF type = JStr("Feature")
             THEN [raised |-> None, records |-> <<1>>]
             ELSE [raised |-> "CollectionError", records |-> <<>>]

\* What collect() of each collector makes of one parsed response body.
CollectBody(collector, body) ==
    IF collector = "APICollector" THEN ExtractRecords(body)
    ELSE IF collector = "SODACollector" THEN SodaRecords(body)
    ELSE GeoJSONRecords(body)

\* Record lists of up to two records.
SomeRecords == {ServeOffset(n, 0, n) : n \in 0..2}

\* The bodies an upstream may answer with.
Bodies ==
    {JList(r) : r \in SomeRecords}
    \cup {JDict([data |-> JList(r)]) : r \in SomeRecords}
    \cup {JDict([results |-> JList(r)]) : r \in SomeRecords}
    \cup {JDict([records |-> JList(r)]) : r \in SomeRecords}
    \cup {JDict([items |-> JList(r)]) : r \in SomeRecords}
    \cup {JDict([hits |-> JList(r)]) : r \in SomeRecords}
    \cup {JDict([hits |-> JDict([hits |-> JList(r)])]) : r \in SomeRecords}
    \cup {JDict([type |-> JStr("FeatureCollection"), features |-> JList(r)]) :
              r \in SomeRecords}
    \cup {JDict([type |-> JStr("FeatureCollection"), features |-> JNull]),
          JDict([type |-> JStr("Feature"), properties |-> JDict([name |-> JStr("a")])]),
          JDict([type |-> JStr("Topology")]),
          JDict([error |-> JStr("rate limit exceeded")]),
          JDict([data |-> JDict([total |-> JNum])]),
          JDict([count |-> JNum]),
          JStr("ok"), JNum, JNull}

\* The collectors that parse JSON bodies.
JsonCollectors == {"APICollector", "SODACollector", "GeoJSONCollector"}

ShapeStart(collector, body) ==
    [mode |-> "shape", collector |-> collector, body |-> body,
     yielded |-> <<>>, raised |-> None, pc |-> "loop"]

\* api_collector.py:43-48, 259-281, geojson_collector.py:29-56  collect() on
\* the parsed body of a response
CollectShape ==
    /\ pag.mode = "shape"
    /\ pag.pc = "loop"
    /\ LET out == CollectBody(pag.collector, pag.body)
       IN  pag' = [pag EXCEPT !.yielded = out.records, !.raised = out.raised,
                              !.pc = "done"]
    /\ UNCHANGED <<jobstate, fn, aps>>

InitShape ==
    /\ NoJobs
    /\ fn = FnOff
    /\ aps = ApsOff
    /\ \E collector \in JsonCollectors, body \in Bodies :
          pag = ShapeStart(collector, body)

NextShape == CollectShape

SpecShape == InitShape /\ [][NextShape]_vars

(* ------- APICollector.collect with the wrong pagination variant ------- *)

\* The pagination types a descriptor may name: the five the collector knows
\* and one it does not.
DescriptorTypes == {"none", "offset", "page", "cursor", "link", "scroll"}

\* An upstream that ignores the pagination parameters: every request is
\* answered with the whole list of its N records, without cursor field and
\* without Link header.
ServeIgnoring(N) == [body |-> JList(ServeOffset(N, 0, N)), link |-> None]

\* api_collector.py:192-203  _nested_get of the cursor field: absent (0) when
\* the body is not a dict
nested_get_cursor(body) == IF body.kind = "dict" THEN body.next_cursor ELSE 0

\* A counter of the collector that the upstream ignores, followed up to cap.
UpTo(x, cap) == Min(x, cap)

\* api_collector.py:20-37  APICollector.collect: read the descriptor and
\* dispatch on its type
VariantStart(type, N, P) ==
    [mode |-> "variant", type |-> type, fetcher |-> PagDispatch(type),
     N |-> N, page_size |-> P, offset |-> 0, page |-> 1, cursor |-> 0,
     resp |-> [body |-> JList(<<>>), link |-> None],
     requests |-> 0, yielded |-> 0, raised |-> None, pc |-> "loop"]

\* api_collector.py:43-45, 63-66, 96-99, 127-132, 150-154  the request of a
\* fetcher: fetch_url, _parse_json_response, _extract_records
VariantRequest ==
    /\ pag.mode = "variant"
    /\ pag.pc = "loop"
    /\ pag' = [pag EXCEPT !.resp = ServeIgnoring(pag.N),
                          !.requests = UpTo(@ + 1, HistoryLen),
                          !.pc = "got"]
    /\ UNCHANGED <<jobstate, fn, aps>>

\* api_collector.py:46-48, 68-81, 101-111, 134-141, 156-162  what each fetcher
\* does with the records of a response: yield them, then stop or go on
VariantYield ==
    /\ pag.mode = "variant"
    /\ pag.pc = "got"
    /\ LET records == ExtractRecords(pag.resp.body).records
           more == UpTo(pag.yielded + Len(records), HistoryLen * pag.N)
       IN  CASE pag.fetcher = "none" ->
                  pag' = [pag EXCEPT !.yielded = more, !.pc = "done"]
             [] pag.fetcher = "offset" ->
                  IF Len(records) = 0
                  THEN pag' = [pag EXCEPT !.pc = "done"]
                  ELSE IF LastPage(records, pag.page_size)
                  THEN pag' = [pag EXCEPT !.yielded = more, !.pc = "done"]
                  ELSE pag' = [pag EXCEPT !.yielded = more, !.pc = "loop",
                                 !.offset = UpTo(NextOffset(@, pag.page_size),
                                                 HistoryLen * pag.page_size)]
             [] pag.fetcher = "page" ->
                  IF Len(records) = 0
                  THEN pag' = [pag EXCEPT !.pc = "done"]
                  ELSE IF LastPage(records, pag.page_size)
                  THEN pag' = [pag EXCEPT !.yielded = more, !.pc = "done"]
                  ELSE pag' = [pag EXCEPT !.yielded = more, !.pc = "loop",
                                          !.page = UpTo(@ + 1, HistoryLen + 1)]
             [] pag.fetcher = "cursor" ->
                  LET cursor == nested_get_cursor(pag.resp.body)
                  IN  pag' = [pag EXCEPT !.yielded = more, !.cursor = cursor,
                                 !.pc = IF cursor = 0 \/ Len(records) = 0
                                        THEN "done" ELSE "loop"]
             [] pag.fetcher = "link" ->
                  pag' = [pag EXCEPT !.yielded = more,
                             !.pc = IF pag.resp.link = None THEN "done" ELSE "loop"]
    /\ UNCHANGED <<jobstate, fn, aps>>

InitVariant ==
    /\ NoJobs
    /\ fn = FnOff
    /\ aps = ApsOff
    /\ \E type \in DescriptorTypes, N \in 0..MaxN, P \in 1..MaxP :
          pag = VariantStart(type, N, P)

NextVariant == VariantRequest \/ VariantYield

\* The job's for loop resumes the generator until it is exhausted.
SpecVariant == InitVariant /\ [][NextVariant]_vars /\ WF_vars(NextVariant)

(* ------------------------ RecordNormalizer ----------------------------- *)

\* Values of a raw record besides those above: integers, integers beyond the
\* range of a float, not-a-number aside, booleans; Absent is a key the record
\* does not have.
JInt(n) == [kind |-> "num", num |-> n]
JBigInt == [kind |-> "bigint"]
JBool(b) == [kind |-> "bool", bool |-> b]
Absent == [kind |-> "absent"]

\* Python truth of a value: None, "", 0, False, [] and {} are false.
Truthy(v) ==
    CASE v.kind \in {"null", "absent"} -> FALSE
      [] v.kind = "str" -> v.value # ""
      [] v.kind = "num" -> ~("num" \in DOMAIN v) \/ v.num # 0
      [] v.kind = "bool" -> v.bool
      [] v.kind = "list" -> v.items # <<>>
      [] v.kind = "dict" -> DOMAIN v.fields # {}
      [] OTHER -> TRUE

\* dict.get(key): None for a key the dict does not have
Get(v) == IF v = Absent THEN JNull ELSE v

\* normalizer.py:148  the strings _clean_value takes for no value (after
\* strip and lower)
NullWords == {"", "n/a", "na", "null", "none", "-", "unknown"}

\* normalizer.py:144-150  _clean_value (the strings of the model carry no
\* surrounding white space and no capitals among the null words)
clean_value(v) ==
    IF v.kind = "str" /\ v.value \in NullWords THEN JNull ELSE v

\* The strings float() parses, with their values; "nan" parses to not-a-number.
NumericStrings == ("45" :> 45) @@ ("95" :> 95) @@ ("-100" :> -100) @@ ("0" :> 0)

\* float(v): a number, or the exception raised
Float(v) ==
    CASE v.kind = "num" -> [exc |-> None, nan |-> FALSE, num |-> v.num]
      [] v.kind = "bool" ->
            [exc |-> None, nan |-> FALSE, num |-> IF v.bool THEN 1 ELSE 0]
      [] v.kind = "str" /\ v.value \in DOMAIN NumericStrings ->
            [exc |-> None, nan |-> FALSE, num |-> NumericStrings[v.value]]
      [] v.kind = "str" /\ v.value = "nan" -> [exc |-> None, nan |-> TRUE, num |-> 0]
      [] v.kind = "str" -> [exc |-> "ValueError", nan |-> FALSE, num |-> 0]
      [] v.kind = "bigint" -> [exc |-> "OverflowError", nan |-> FALSE, num |-> 0]
      [] OTHER -> [exc |-> "TypeError", nan |-> FALSE, num |-> 0]

\* normalizer.py:179-180  float(x) if x is not None and x != "" else None
ToFloat(v) ==
    IF v = JNull \/ v = JStr("")
    THEN [exc |-> None, none |-> TRUE, nan |-> FALSE, num |-> 0]
    ELSE [none |-> FALSE] @@ Float(v)

\* a float as a value of the normalized record
FloatValue(f) ==
    IF f.none THEN JNull ELSE IF f.nan THEN [kind |-> "nan"] ELSE JInt(f.num)

\* normalizer.py:183-186  a coordinate outside lo..hi (not-a-number included)
\* becomes None
Clamp(f, lo, hi) ==
    IF ~f.none /\ (f.nan \/ ~(lo <= f.num /\ f.num <= hi))
    THEN [f EXCEPT !.none = TRUE] ELSE f

\* normalizer.py:165, 167  loc.get("latitude") or loc.get("lat"), the second
\* key being absent
OrNone(v) == IF Truthy(v) THEN v ELSE JNull

\* normalizer.py:157-175  the latitude and longitude to convert: those of the
\* normalized record, completed from a nested location object
PickCoordinates(normalized, raw) ==
    LET lat0 == Get(normalized.latitude)
        lon0 == Get(normalized.longitude)
        loc == raw.location
        first == IF loc.kind = "dict"
                 THEN [lat |-> IF lat0 = JNull THEN OrNone(Get(loc.fields.latitude))
                               ELSE lat0,
                       lon |-> IF lon0 = JNull THEN OrNone(Get(loc.fields.longitude))
                               ELSE lon0]
                 ELSE [lat |-> lat0, lon |-> lon0]
    IN  IF first.lat = JNull /\ loc.kind = "dict"
        THEN [lat |-> Get(loc.fields.latitude), lon |-> Get(loc.fields.longitude)]
        ELSE first

\* normalizer.py:152-197  _parse_coordinates: ValueError and TypeError leave
\* both coordinates None, any other exception leaves the function
parse_coordinates(normalized, raw) ==
    LET picked == PickCoordinates(normalized, raw)
        lat == ToFloat(picked.lat)
        lon == ToFloat(picked.lon)
        exc == IF lat.exc # None THEN lat.exc ELSE lon.exc
        lat_f == Clamp(lat, -90, 90)
        lon_f == Clamp(lon, -180, 180)
        island == /\ ~lat_f.none /\ ~lon_f.none
                  /\ ~lat_f.nan /\ ~lon_f.nan
                  /\ lat_f.num = 0 /\ lon_f.num = 0
    IN  IF exc \in {"ValueError", "TypeError"}
        THEN [raised |-> None,
              normalized |-> [normalized EXCEPT !.latitude = JNull, !.longitude = JNull]]
        ELSE IF exc # None
        THEN [raised |-> exc, normalized |-> normalized]
        ELSE IF island
        THEN [raised |-> None,
              normalized |-> [normalized EXCEPT !.latitude = JNull, !.longitude = JNull]]
        ELSE [raised |-> None,
              normalized |-> [normalized EXCEPT !.latitude = FloatValue(lat_f),
                                                !.longitude = FloatValue(lon_f)]]

\* normalizer.py:246-264  state_map (part), looked up by state.lower().strip()
state_map == ("colorado" :> "CO") @@ ("new york" :> "NY")

\* str.lower() and str.upper() of the strings of the model
Lower == ("Colorado" :> "colorado") @@ ("Atlantis" :> "atlantis") @@ ("co" :> "co")
            @@ ("CO" :> "co") @@ ("New York" :> "new york")
Upper == ("co" :> "CO") @@ ("CO" :> "CO") @@ ("ny" :> "NY")

\* normalizer.py:241-270  _standardize_state: len() of a number or a boolean
\* is a TypeError, .lower() and .upper() of a list or a dict an AttributeError
standardize_state(normalized) ==
    LET state == Get(normalized.state)
    IN  IF ~Truthy(state) THEN [raised |-> None, normalized |-> normalized]
        ELSE IF state.kind \in {"num", "bool", "bigint"}
        THEN [raised |-> "TypeError", normalized |-> normalized]
        ELSE IF state.kind # "str"
        THEN [raised |-> "AttributeError", normalized |-> normalized]
        ELSE IF Len(state.value) > 2
        THEN IF Lower[state.value] \in DOMAIN state_map
             THEN [raised |-> None,
                   normalized |-> [normalized EXCEPT
                                      !.state = JStr(state_map[Lower[state.value]])]]
             ELSE [raised |-> None, normalized |-> normalized]
        ELSE [raised |-> None,
              normalized |-> [normalized EXCEPT !.state = JStr(Upper[state.value])]]

\* normalizer.py:59-71  direct name matching of the standard fields, each
\* value cleaned, and the source's state for a record without one
MatchFields(raw, source_state) ==
    LET direct == [f \in {"latitude", "longitude", "state"} |->
                      IF raw[f] = Absent THEN Absent ELSE clean_value(raw[f])]
    IN  IF ~Truthy(direct.state) THEN [direct EXCEPT !.state = source_state]
        ELSE direct

\* normalizer.py:43-81  normalize: match, fill in, then the typed fields; an
\* exception of a step leaves normalize
normalize(raw, source_state) ==
    LET coords == parse_coordinates(MatchFields(raw, source_state), raw)
    IN  IF coords.raised # None THEN coords
        ELSE standardize_state(coords.normalized)

\* Values a source may give for a coordinate.
CoordInputs ==
    {Absent, JNull, JStr(""), JStr("abc"), JStr("45"), JStr("95"), JStr("-100"),
     JStr("nan"), JInt(0), JInt(45), JInt(-181), JBool(TRUE), JList(<<>>), JBigInt}

\* Values a source may give for the state.
StateInputs ==
    {Absent, JStr("co"), JStr("Colorado"), JStr("Atlantis"), JInt(12345),
     JList(<<1, 2, 3>>)}

\* Nested location objects of a raw record.
LocationInputs ==
    {Absent,
     JDict([latitude |-> JStr("45"), longitude |-> JStr("-100")]),
     JDict([latitude |-> JInt(0), longitude |-> JInt(95)])}

\* The state of the source configuration: a code, or none.
SourceStates == {JStr("CO"), JNull}

NormalizeStart(raw, source_state) ==
    [op |-> "normalize", raw |-> raw, source_state |-> source_state,
     raised |-> None, normalized |-> <<>>, pc |-> "call"]

\* manager.py:279  normalized = normalizer.normalize(raw_record)
Normalize ==
    /\ fn.op = "normalize"
    /\ fn.pc = "call"
    /\ LET out == normalize(fn.raw, fn.source_state)
       IN  fn' = [fn EXCEPT !.raised = out.raised,
                            !.normalized = IF out.raised = None THEN out.normalized
                                           ELSE <<>>,
                            !.pc = "done"]
    /\ UNCHANGED <<jobstate, pag, aps>>

InitNorm ==
    /\ NoJobs
    /\ pag = PagOff
    /\ aps = ApsOff
    /\ \E lat \in CoordInputs, lon \in CoordInputs, state \in StateInputs,
          loc \in LocationInputs, source_state \in SourceStates :
          fn = NormalizeStart([latitude |-> lat, longitude |-> lon,
                               state |-> state, location |-> loc], source_state)

NextNorm == Normalize

SpecNorm == InitNorm /\ [][NextNorm]_vars

(* --------------- RecordNormalizer._parse_date_string ------------------- *)

\* A date string is a sequence of characters; a month name is one element
\* of it (no month name, written with an initial capital, holds a "T" or a
\* space, the characters the string is cut at).
Digits == <<"0", "1", "2", "3", "4", "5", "6", "7", "8", "9">>

\* %b and %B: the month names of the C locale
MonthAbbr == <<"Jan", "Feb", "Mar", "Apr", "May", "Jun",
               "Jul", "Aug", "Sep", "Oct", "Nov", "Dec">>
MonthName == <<"January", "February", "March", "April", "May", "June", "July",
               "August", "September", "October", "November", "December">>

NoDate == [year |-> 0, month |-> 0, day |-> 0]

\* normalizer.py:218-222  formats, in the order they are tried
DateFormats ==
    << <<"%Y", "-", "%m", "-", "%d">>,
       <<"%m", "/", "%d", "/", "%Y">>,
       <<"%m", "-", "%d", "-", "%Y">>,
       <<"%d", "/", "%m", "/", "%Y">>,
       <<"%d", "-", "%m", "-", "%Y">>,
       <<"%Y", "/", "%m", "/", "%d">>,
       <<"%m", "/", "%d", "/", "%y">>,
       <<"%d", "-", "%b", "-", "%Y">>,
       <<"%B", " ", "%d", ",", " ", "%Y">> >>

\* normalizer.py:225  datetime.strptime(date_str, fmt).date(): the date, or
\* NoDate for the ValueError of a string that does not match or of a day the
\* month does not have
strptime(str, format) ==
    LET DigitVal(c) == (CHOOSE i \in DOMAIN Digits : Digits[i] = c) - 1
        IsDigit(c) == \E i \in DOMAIN Digits : Digits[i] = c
        Drop(s, n) == SubSeq(s, n + 1, Len(s))
        \* The value of the n digits a string begins with, -1 when it does not.
        RECURSIVE Number(_, _)
        Number(s, n) ==
            IF n = 0 THEN 0
            ELSE IF Len(s) < n \/ ~IsDigit(s[n]) THEN -1
            ELSE LET front == Number(s, n - 1)
                 IN  IF front = -1 THEN -1 ELSE front * 10 + DigitVal(s[n])
        \* The ways a string can begin with a number of one or two digits
        \* within 1..hi, a single digit not being 0 and a first digit 0 needing
        \* a second: the patterns of %m (1[0-2]|0[1-9]|[1-9]) and of %d
        \* (3[01]|[12]\d|0[1-9]|[1-9])
        OneOrTwoDigits(s, hi) ==
            {[len |-> n, val |-> Number(s, n)] :
                n \in {k \in 1..2 : Number(s, k) \in 1..hi}}
        \* The position of a name in a list of names, 0 when it is not there.
        IndexOf(names, c) ==
            IF \E i \in DOMAIN names : names[i] = c
            THEN CHOOSE i \in DOMAIN names : names[i] = c ELSE 0
        \* _strptime: the ways string s matches the rest of a format, each
        \* with the fields it sets; the whole string must be consumed
        RECURSIVE Match(_, _, _)
        Match(fmt, s, acc) ==
            IF fmt = <<>> THEN (IF s = <<>> THEN {acc} ELSE {})
            ELSE LET t == Head(fmt)
                     rest == Tail(fmt)
                 IN  CASE t = "%Y" ->
                            IF Number(s, 4) = -1 THEN {}
                            ELSE Match(rest, Drop(s, 4),
                                       [acc EXCEPT !.year = Number(s, 4)])
                       [] t = "%y" ->
                            IF Number(s, 2) = -1 THEN {}
                            ELSE Match(rest, Drop(s, 2),
                                       [acc EXCEPT !.year = IF Number(s, 2) <= 68
                                                            THEN 2000 + Number(s, 2)
                                                            ELSE 1900 + Number(s, 2)])
                       [] t = "%m" ->
                            UNION {Match(rest, Drop(s, o.len),
                                         [acc EXCEPT !.month = o.val]) :
                                       o \in OneOrTwoDigits(s, 12)}
                       [] t = "%d" ->
                            UNION {Match(rest, Drop(s, o.len),
                                         [acc EXCEPT !.day = o.val]) :
                                       o \in OneOrTwoDigits(s, 31)}
                       [] t = "%b" ->
                            IF s = <<>> \/ IndexOf(MonthAbbr, Head(s)) = 0 THEN {}
                            ELSE Match(rest, Tail(s),
                                       [acc EXCEPT !.month = IndexOf(MonthAbbr, Head(s))])
                       [] t = "%B" ->
                            IF s = <<>> \/ IndexOf(MonthName, Head(s)) = 0 THEN {}
                            ELSE Match(rest, Tail(s),
                                       [acc EXCEPT !.month = IndexOf(MonthName, Head(s))])
                       [] OTHER ->
                            IF s = <<>> \/ Head(s) # t THEN {}
                            ELSE Match(rest, Tail(s), acc)
        LeapYear(y) == (y % 4 = 0 /\ y % 100 # 0) \/ y % 400 = 0
        DaysIn(y, m) ==
            IF m = 2 THEN (IF LeapYear(y) THEN 29 ELSE 28)
            ELSE IF m \in {4, 6, 9, 11} THEN 30 ELSE 31
        found == {d \in Match(format, str, NoDate) : d.day <= DaysIn(d.year, d.month)}
    IN  IF found = {} THEN NoDate ELSE CHOOSE d \in found : TRUE

\* normalizer.py:216  date_str.split("T")[0].split(" ")[0].strip()
DatePart(str) ==
    LET \* str.split(sep)[0]: the string up to the first sep
        RECURSIVE Before(_, _)
        Before(s, sep) ==
            IF s = <<>> \/ Head(s) = sep THEN <<>>
            ELSE <<Head(s)>> \o Before(Tail(s), sep)
    IN  Before(Before(str, "T"), " ")

\* normalizer.py:210-228  _parse_date_string: the first format that parses
\* the date part of the string wins
parse_date_string(str) ==
    LET RECURSIVE TryFormats(_, _)
        TryFormats(s, i) ==
            IF i > Len(DateFormats) THEN NoDate
            ELSE IF strptime(s, DateFormats[i]) # NoDate
            THEN strptime(s, DateFormats[i])
            ELSE TryFormats(s, i + 1)
    IN  IF str = <<>> THEN NoDate ELSE TryFormats(DatePart(str), 1)

\* date.strftime(fmt): how a date is written in a format
RECURSIVE strftime(_, _)
strftime(d, fmt) ==
    LET \* n written with k digits
        RECURSIVE Written(_, _)
        Written(n, k) ==
            IF k = 0 THEN <<>>
            ELSE Written(n \div 10, k - 1) \o <<Digits[(n % 10) + 1]>>
    IN  IF fmt = <<>> THEN <<>>
        ELSE LET t == Head(fmt)
             IN  (CASE t = "%Y" -> Written(d.year, 4)
                    [] t = "%y" -> Written(d.year % 100, 2)
                    [] t = "%m" -> Written(d.month, 2)
                    [] t = "%d" -> Written(d.day, 2)
                    [] t = "%b" -> <<MonthAbbr[d.month]>>
                    [] t = "%B" -> <<MonthName[d.month]>>
                    [] OTHER -> <<t>>) \o strftime(d, Tail(fmt))

\* The dates written to the normalizer.
SomeDates ==
    {[year |-> 2024, month |-> 3, day |-> 5],
     [year |-> 2024, month |-> 3, day |-> 15],
     [year |-> 2024, month |-> 12, day |-> 25],
     [year |-> 2024, month |-> 2, day |-> 29],
     [year |-> 2023, month |-> 11, day |-> 7],
     [year |-> 1999, month |-> 1, day |-> 31]}

\* What may follow the date in the string: nothing, or a time of day.
TimeSuffixes ==
    {<<>>, <<"T", "1", "0", ":", "0", "0">>, <<" ", "1", "0", ":", "0", "0">>}

DateStart(d, i, suffix) ==
    [op |-> "date", date |-> d, format |-> i, suffix |-> suffix,
     text |-> strftime(d, DateFormats[i]) \o suffix, parsed |-> NoDate, pc |-> "call"]

\* normalizer.py:205  parsed = self._parse_date_string(str(val))
ParseDate ==
    /\ fn.op = "date"
    /\ fn.pc = "call"
    /\ fn' = [fn EXCEPT !.parsed = parse_date_string(fn.text), !.pc = "done"]
    /\ UNCHANGED <<jobstate, pag, aps>>

InitDate ==
    /\ NoJobs
    /\ pag = PagOff
    /\ aps = ApsOff
    /\ \E d \in SomeDates, i \in DOMAIN DateFormats, suffix \in TimeSuffixes :
          fn = DateStart(d, i, suffix)

NextDate == ParseDate

SpecDate == InitDate /\ [][NextDate]_vars

(* ============================ CSV header names ========================= *)

\* A header is a sequence of characters.  The characters the replacements of
\* _normalize_header tell apart: an upper-case and a lower-case letter, the
\* two kinds of white space (a space is replaced, a tab is not), the
\* characters replaced by "_", the parentheses, "#" and "_" itself.
HeaderChars == {"A", "a", " ", "\t", "-", ".", "/", "(", ")", "#", "_"}

Headers == UNION {[1..n -> HeaderChars] : n \in 0..MaxHeaderLen}

\* csv_collector.py:106-121  _normalize_header: the header stripped of white
\* space, in lower case, " ", "-", "." and "/" replaced by "_", the
\* parentheses removed, "#" replaced by "num", and "_" stripped from both ends
normalize_header(header) ==
    LET RECURSIVE LStrip(_, _)
        LStrip(s, chars) ==
            IF s # <<>> /\ Head(s) \in chars THEN LStrip(Tail(s), chars) ELSE s
        RECURSIVE RStrip(_, _)
        RStrip(s, chars) ==
            IF s # <<>> /\ s[Len(s)] \in chars
            THEN RStrip(SubSeq(s, 1, Len(s) - 1), chars)
            ELSE s
        \* str.strip(chars); with no argument it strips white space
        Strip(s, chars) == RStrip(LStrip(s, chars), chars)
        Whitespace == {" ", "\t"}
        \* str.lower()
        LowerCase(s) == [i \in DOMAIN s |-> IF s[i] = "A" THEN "a" ELSE s[i]]
        \* str.replace(old, new) for a one-character old
        RECURSIVE Replace(_, _, _)
        Replace(s, old, new) ==
            IF s = <<>> THEN <<>>
            ELSE (IF Head(s) = old THEN new ELSE <<Head(s)>>)
                     \o Replace(Tail(s), old, new)
        a == LowerCase(Strip(header, Whitespace))
        b == Replace(a, " ", <<"_">>)
        c == Replace(b, "-", <<"_">>)
        d == Replace(c, ".", <<"_">>)
        e == Replace(d, "/", <<"_">>)
        f == Replace(e, "(", <<>>)
        g == Replace(f, ")", <<>>)
        h == Replace(g, "#", <<"n", "u", "m">>)
    IN  IF header = <<>> THEN <<"u", "n", "k", "n", "o", "w", "n">>
        ELSE Strip(h, {"_"})

HeaderStart(h) ==
    [op |-> "header", header |-> h, once |-> <<>>, twice |-> <<>>, pc |-> "call"]

\* csv_collector.py:54-57  the field names of the file are normalized
NormalizeHeader ==
    /\ fn.op = "header"
    /\ fn.pc = "call"
    /\ fn' = [fn EXCEPT !.once = normalize_header(fn.header), !.pc = "once"]
    /\ UNCHANGED <<jobstate, pag, aps>>

\* The normalized name is the header of a later file (an export of the stored
\* records) and is normalized again.
NormalizeHeaderAgain ==
    /\ fn.op = "header"
    /\ fn.pc = "once"
    /\ fn' = [fn EXCEPT !.twice = normalize_header(fn.once), !.pc = "done"]
    /\ UNCHANGED <<jobstate, pag, aps>>

InitHeader ==
    /\ NoJobs
    /\ pag = PagOff
    /\ aps = ApsOff
    /\ \E h \in Headers : fn = HeaderStart(h)

NextHeader == NormalizeHeader \/ NormalizeHeaderAgain

SpecHeader == InitHeader /\ [][NextHeader]_vars

(* ============================= record hashes =========================== *)

\* A dict with its insertion order: the sequence of its <<key, value>> pairs,
\* the keys distinct.  Keys and string values are sequences of characters.
JObject(pairs) == [kind |-> "dict", pairs |-> pairs]

\* the code points of the characters of the serializations
Ascii ==
    (" " :> 32) @@ ("\"" :> 34) @@ ("-" :> 45) @@ ("," :> 44) @@ (":" :> 58)
    @@ ("[" :> 91) @@ ("]" :> 93) @@ ("\\" :> 92) @@ ("{" :> 123) @@ ("}" :> 125)
    @@ ("0" :> 48) @@ ("1" :> 49) @@ ("2" :> 50) @@ ("3" :> 51) @@ ("4" :> 52)
    @@ ("5" :> 53) @@ ("6" :> 54) @@ ("7" :> 55) @@ ("8" :> 56) @@ ("9" :> 57)
    @@ ("a" :> 97) @@ ("b" :> 98) @@ ("e" :> 101) @@ ("f" :> 102) @@ ("l" :> 108)
    @@ ("n" :> 110) @@ ("r" :> 114) @@ ("s" :> 115) @@ ("t" :> 116) @@ ("u" :> 117)
    @@ ("x" :> 120)

\* The items of a dict in the order of insertion.
ItemsOf_AsInserted(pairs) == pairs
\* json.dumps(sort_keys=True): the items of a dict in the order of their
\* keys, strings compared by code point, a proper prefix first
ItemsOf(pairs) ==
    LET RECURSIVE StrLess(_, _)
        StrLess(a, b) ==
            IF b = <<>> THEN FALSE
            ELSE IF a = <<>> THEN TRUE
            ELSE IF Head(a) # Head(b) THEN Ascii[Head(a)] < Ascii[Head(b)]
            ELSE StrLess(Tail(a), Tail(b))
        \* one pair put in its place among sorted pairs
        RECURSIVE Insert(_, _)
        Insert(pair, sorted) ==
            IF sorted = <<>> THEN <<pair>>
            ELSE IF StrLess(pair[1], Head(sorted)[1]) THEN <<pair>> \o sorted
            ELSE <<Head(sorted)>> \o Insert(pair, Tail(sorted))
        RECURSIVE Sorted(_)
        Sorted(items) ==
            IF items = <<>> THEN <<>> ELSE Insert(Head(items), Sorted(Tail(items)))
    IN  Sorted(pairs)

\* an integer in decimal
RECURSIVE Decimal(_)
Decimal(n) ==
    IF n < 0 THEN <<"-">> \o Decimal(0 - n)
    ELSE IF n < 10 THEN <<Digits[n + 1]>>
    ELSE Decimal(n \div 10) \o <<Digits[(n % 10) + 1]>>

\* a string between quotes, '"' and '\' escaped
Quoted(str) ==
    LET RECURSIVE Escaped(_)
        Escaped(s) ==
            IF s = <<>> THEN <<>>
            ELSE (IF Head(s) \in {"\"", "\\"} THEN <<"\\", Head(s)>> ELSE <<Head(s)>>)
                     \o Escaped(Tail(s))
    IN  <<"\"">> \o Escaped(str) \o <<"\"">>

\* models.py:267  json.dumps(record_data, sort_keys=True, default=str), with
\* the default separators ", " and ": "
RECURSIVE dumps(_)
RECURSIVE DumpItems(_)
RECURSIVE DumpPairs(_)
dumps(v) ==
    CASE v.kind = "null" -> <<"n", "u", "l", "l">>
      [] v.kind = "bool" -> IF v.bool THEN <<"t", "r", "u", "e">>
                                       ELSE <<"f", "a", "l", "s", "e">>
      [] v.kind = "num" -> Decimal(v.num)
      [] v.kind = "str" -> Quoted(v.value)
      [] v.kind = "list" -> <<"[">> \o DumpItems(v.items) \o <<"]">>
      [] v.kind = "dict" -> <<"{">> \o DumpPairs(ItemsOf(v.pairs)) \o <<"}">>

DumpItems(items) ==
    IF items = <<>> THEN <<>>
    ELSE dumps(Head(items))
             \o (IF Len(items) > 1 THEN <<",", " ">> \o DumpItems(Tail(items)) ELSE <<>>)

DumpPairs(pairs) ==
    IF pairs = <<>> THEN <<>>
    ELSE Quoted(Head(pairs)[1]) \o <<":", " ">> \o dumps(Head(pairs)[2])
             \o (IF Len(pairs) > 1 THEN <<",", " ">> \o DumpPairs(Tail(pairs)) ELSE <<>>)

\* models.py:268  serialized.encode(): json.dumps writes ASCII only
encode(str) == [i \in DOMAIN str |-> Ascii[str[i]]]

\* the round constants of SHA-256 (FIPS 180-4), each word as the pair of its
\* upper and lower 16-bit halves
RoundConstants ==
    << <<17034, 12184>>, <<28983, 17553>>, <<46528, 64463>>, <<59829, 56229>>,
       <<14678, 49755>>, <<23025, 4593>>, <<37439, 33444>>, <<43804, 24277>>,
       <<55303, 43672>>, <<4739, 23297>>, <<9265, 34238>>, <<21772, 32195>>,
       <<29374, 23924>>, <<32990, 45566>>, <<39900, 1703>>, <<49563, 61812>>,
       <<58523, 27073>>, <<61374, 18310>>, <<4033, 40390>>, <<9228, 41420>>,
       <<11753, 11375>>, <<19060, 33962>>, <<23728, 43484>>, <<30457, 35034>>,
       <<38974, 20818>>, <<43057, 50797>>, <<45059, 10184>>, <<48985, 32711>>,
       <<50912, 3059>>, <<54695, 37191>>, <<1738, 25425>>, <<5161, 10599>>,
       <<10167, 2693>>, <<11803, 8504>>, <<19756, 28156>>, <<21304, 3347>>,
       <<25866, 29524>>, <<30314, 2747>>, <<33218, 51502>>, <<37490, 11397>>,
       <<41663, 59553>>, <<43034, 26187>>, <<49739, 35696>>, <<51052, 20899>>,
       <<53650, 59417>>, <<54937, 1572>>, <<62478, 13701>>, <<4202, 41072>>,
       <<6564, 49430>>, <<7735, 27656>>, <<10056, 30540>>, <<13488, 48309>>,
       <<14620, 3251>>, <<20184, 43594>>, <<23452, 51791>>, <<26670, 28659>>,
       <<29839, 33518>>, <<30885, 25455>>, <<33992, 30740>>, <<36039, 520>>,
       <<37054, 65530>>, <<42064, 27883>>, <<48889, 41975>>, <<50801, 30962>> >>

\* the initial hash value of SHA-256
InitialHash ==
    << <<27145, 58983>>, <<47975, 44677>>, <<15470, 62322>>, <<42319, 62778>>,
       <<20750, 21119>>, <<39685, 26764>>, <<8067, 55723>>, <<23520, 52505>> >>

\* models.py:268  hashlib.sha256(bytes).hexdigest(): SHA-256 (FIPS 180-4) of a
\* sequence of bytes, in hexadecimal.  A 32-bit word is the pair of its upper
\* and lower 16-bit halves.
sha256_hexdigest(bytes) ==
    LET Pow2 == [n \in 0..16 |-> 2 ^ n]
        RECURSIVE Xor16(_, _)
        Xor16(a, b) ==
            IF a = 0 THEN b
            ELSE IF b = 0 THEN a
            ELSE ((a + b) % 2) + 2 * Xor16(a \div 2, b \div 2)
        RECURSIVE And16(_, _)
        And16(a, b) ==
            IF a = 0 \/ b = 0 THEN 0
            ELSE ((a % 2) * (b % 2)) + 2 * And16(a \div 2, b \div 2)
        Xor(a, b) == <<Xor16(a[1], b[1]), Xor16(a[2], b[2])>>
        And(a, b) == <<And16(a[1], b[1]), And16(a[2], b[2])>>
        Not(a) == <<65535 - a[1], 65535 - a[2]>>
        \* rotation to the right by n < 16 places, and by any n < 32
        RotRShort(a, n) ==
            << (a[1] \div Pow2[n]) + ((a[2] % Pow2[n]) * Pow2[16 - n]),
               (a[2] \div Pow2[n]) + ((a[1] % Pow2[n]) * Pow2[16 - n]) >>
        RotR(a, n) ==
            IF n < 16 THEN RotRShort(a, n) ELSE RotRShort(<<a[2], a[1]>>, n - 16)
        \* shift to the right by n < 16 places
        ShR(a, n) ==
            << a[1] \div Pow2[n],
               (a[2] \div Pow2[n]) + ((a[1] % Pow2[n]) * Pow2[16 - n]) >>
        \* addition modulo 2^32
        Add(a, b) ==
            LET lo == a[2] + b[2]
            IN  << (a[1] + b[1] + (lo \div 65536)) % 65536, lo % 65536 >>
        Ch(x, y, z) == Xor(And(x, y), And(Not(x), z))
        Maj(x, y, z) == Xor(Xor(And(x, y), And(x, z)), And(y, z))
        BigSigma0(x) == Xor(Xor(RotR(x, 2), RotR(x, 13)), RotR(x, 22))
        BigSigma1(x) == Xor(Xor(RotR(x, 6), RotR(x, 11)), RotR(x, 25))
        SmallSigma0(x) == Xor(Xor(RotR(x, 7), RotR(x, 18)), ShR(x, 3))
        SmallSigma1(x) == Xor(Xor(RotR(x, 17), RotR(x, 19)), ShR(x, 10))
        \* the message schedule: w holds the words so far
        RECURSIVE Schedule(_)
        Schedule(w) ==
            IF Len(w) = 64 THEN w
            ELSE LET t == Len(w) + 1
                 IN  Schedule(Append(w, Add(Add(SmallSigma1(w[t - 2]), w[t - 7]),
                                            Add(SmallSigma0(w[t - 15]), w[t - 16]))))
        \* round s.t on the working variables a..h, s.v
        Round(s, w) ==
            LET v == s.v
                t1 == Add(Add(Add(v[8], BigSigma1(v[5])), Ch(v[5], v[6], v[7])),
                          Add(RoundConstants[s.t], w[s.t]))
                t2 == Add(BigSigma0(v[1]), Maj(v[1], v[2], v[3]))
            IN  [t |-> s.t + 1,
                 v |-> <<Add(t1, t2), v[1], v[2], v[3],
                         Add(v[4], t1), v[5], v[6], v[7]>>]
        RECURSIVE Rounds(_, _)
        Rounds(s, w) == IF s.t > 64 THEN s.v ELSE Rounds(Round(s, w), w)
        \* one 512-bit block (16 words) folded into the hash value h
        Compress(h, block) ==
            LET v == Rounds([t |-> 1, v |-> h], Schedule(block))
            IN  [i \in 1..8 |-> Add(h[i], v[i])]
        \* the message padded to a whole number of blocks
        Zeros(n) == [i \in 1..n |-> 0]
        bits == 8 * Len(bytes)
        padded ==
            bytes \o <<128>> \o Zeros((119 - Len(bytes)) % 64) \o Zeros(4)
                  \o << (bits \div 16777216) % 256, (bits \div 65536) % 256,
                        (bits \div 256) % 256, bits % 256 >>
        \* the big-endian word of four bytes, and the 16 words of block b
        WordOf(i) ==
            <<padded[i] * 256 + padded[i + 1], padded[i + 2] * 256 + padded[i + 3]>>
        Block(b) == [t \in 1..16 |-> WordOf(64 * (b - 1) + 4 * (t - 1) + 1)]
        RECURSIVE Blocks(_, _)
        Blocks(h, b) ==
            IF 64 * (b - 1) >= Len(padded) THEN h
            ELSE Blocks(Compress(h, Block(b)), b + 1)
        HexDigits == <<"0", "1", "2", "3", "4", "5", "6", "7",
                       "8", "9", "a", "b", "c", "d", "e", "f">>
        \* the eight hexadecimal digits of a word, most significant first
        HexOf(w) ==
            [k \in 1..8 |->
                LET half == IF k <= 4 THEN w[1] ELSE w[2]
                IN  HexDigits[((half \div Pow2[4 * ((8 - k) % 4)]) % 16) + 1]]
        digest == Blocks(InitialHash, 1)
    IN  HexOf(digest[1]) \o HexOf(digest[2]) \o HexOf(digest[3]) \o HexOf(digest[4])
            \o HexOf(digest[5]) \o HexOf(digest[6]) \o HexOf(digest[7])
            \o HexOf(digest[8])

\* models.py:264-268  RawRecord.compute_hash
compute_hash(record_data) ==
    LET serialized == dumps(record_data)
    IN  sha256_hexdigest(encode(serialized))

\* The raw records of a batch, each in one order of insertion.
BaseRecords ==
    { JObject(<< <<<<"a">>, JInt(1)>>, <<<<"b">>, JInt(2)>> >>),
      JObject(<< <<<<"a">>, JInt(2)>>, <<<<"b">>, JInt(1)>> >>),
      JObject(<< <<<<"a">>, JObject(<< <<<<"a">>, JInt(1)>>, <<<<"b">>, JInt(2)>> >>)>>,
                 <<<<"b">>, JList(<<JInt(1), JInt(2)>>)>> >>),
      JObject(<< <<<<"a">>, JObject(<< <<<<"a">>, JInt(1)>>, <<<<"b">>, JInt(2)>> >>)>>,
                 <<<<"b">>, JList(<<JInt(2), JInt(1)>>)>> >>),
      JObject(<< <<<<"a">>, JList(<<JObject(<< <<<<"a">>, JNull>>,
                                              <<<<"b">>, JBool(TRUE)>> >>)>>)>>,
                 <<<<"b">>, JStr(<<"1">>)>> >>),
      JObject(<< <<<<"a">>, JStr(<<"1">>)>>,
                 <<<<"a", "b">>, JInt(-10)>>,
                 <<<<"b">>, JStr(<<"x", "\"", "}">>)>> >>) }

\* the ways to take one alternative for each position
Choices(alts) ==
    {c \in [DOMAIN alts -> UNION {alts[i] : i \in DOMAIN alts}] :
        \A i \in DOMAIN alts : c[i] \in alts[i]}

\* the orders in which n items can be inserted
InsertionOrders(n) ==
    {q \in [1..n -> 1..n] : \A i, j \in 1..n : i # j => q[i] # q[j]}

\* The same value with the items of its dicts, at every level, inserted in
\* any order.
RECURSIVE Orderings(_)
Orderings(v) ==
    CASE v.kind = "dict" ->
            LET n == Len(v.pairs)
                alts == [i \in 1..n |-> Orderings(v.pairs[i][2])]
            IN  {JObject([i \in 1..n |-> <<v.pairs[q[i]][1], c[q[i]]>>]) :
                    q \in InsertionOrders(n), c \in Choices(alts)}
      [] v.kind = "list" ->
            LET alts == [i \in DOMAIN v.items |-> Orderings(v.items[i])]
            IN  {JList(c) : c \in Choices(alts)}
      [] OTHER -> {v}

RawRecords == UNION {Orderings(r) : r \in BaseRecords}

HashStart(first, second) ==
    [op |-> "hash", first |-> first, second |-> second,
     hash1 |-> <<>>, hash2 |-> <<>>, pc |-> "first"]

\* manager.py:282  record_hash = RawRecord.compute_hash(raw_record), for one
\* record of the stream
HashFirst ==
    /\ fn.op = "hash"
    /\ fn.pc = "first"
    /\ fn' = [fn EXCEPT !.hash1 = compute_hash(fn.first), !.pc = "second"]
    /\ UNCHANGED <<jobstate, pag, aps>>

\* manager.py:282  the same for a later record
HashSecond ==
    /\ fn.op = "hash"
    /\ fn.pc = "second"
    /\ fn' = [fn EXCEPT !.hash2 = compute_hash(fn.second), !.pc = "done"]
    /\ UNCHANGED <<jobstate, pag, aps>>

InitHash ==
    /\ NoJobs
    /\ pag = PagOff
    /\ aps = ApsOff
    /\ \E first \in RawRecords, second \in RawRecords : fn = HashStart(first, second)

NextHash == HashFirst \/ HashSecond

SpecHash == InitHash /\ [][NextHash]_vars

(* ------------------- APICollector: link pagination -------------------- *)

\* URLs and Link headers are sequences of elements: "<", ">", ";", "," and
\* " " are characters, every other element a run of other characters.
RelNext == "rel=\"next\""

\* The URL of the source, and the URLs its pages are linked by: plain, or
\* with a query that holds a comma.
SourceUrl == <<"https://api.example/items">>
PageUrl(q) == <<"https://api.example/items?page=", Digits[q + 1]>>
PageUrlWithComma(q) ==
    <<"https://api.example/items?fields=a", ",", "b&page=", Digits[q + 1]>>

\* The ways a response names its next page q in the Link header (RFC 5988):
\* no header, a header without a next relation, the next relation alone,
\* after another relation, and with a URL that holds a comma.
LinkStyles == {"none", "last", "next", "prev_next", "comma"}

LinkHeader(style, q) ==
    CASE style = "none" -> <<>>
      [] style = "last" -> <<"<">> \o PageUrl(q) \o <<">", ";", " ", "rel=\"last\"">>
      [] style = "next" -> <<"<">> \o PageUrl(q) \o <<">", ";", " ", RelNext>>
      [] style = "prev_next" ->
            <<"<">> \o SourceUrl \o <<">", ";", " ", "rel=\"prev\"", ",", " ", "<">>
                \o PageUrl(q) \o <<">", ";", " ", RelNext>>
      [] style = "comma" -> <<"<">> \o PageUrlWithComma(q) \o <<">", ";", " ", RelNext>>

\* A source of M pages: page p holds len[p] records and names page next[p],
\* a later page, in the style style[p]; the last page names none.
LinkSources ==
    UNION {{src \in [len : [1..M -> PageLens], next : [1..M -> 1..M],
                     style : [1..M -> LinkStyles]] :
               \A p \in 1..M :
                   /\ src.style[p] \in {"none", "last"} <=> src.next[p] = p
                   /\ src.next[p] >= p
                   /\ p = M => src.style[p] \in {"none", "last"}} :
           M \in 1..MaxPages}

\* The response to a request: the page the URL names with its Link header;
\* a URL without a scheme is refused by requests before anything is sent
\* (MissingSchema, which fetch_url lets through).
ServeLink(src, url) ==
    LET M == Len(src.len)
        named == {q \in 1..M : url \in {PageUrl(q), PageUrlWithComma(q)}}
        page == IF url = SourceUrl THEN 1
                ELSE IF named # {} THEN CHOOSE q \in named : TRUE ELSE 0
    IN  IF page = 0 THEN [raised |-> "MissingSchema", body |-> JNull, link |-> <<>>]
        ELSE [raised |-> None,
              body |-> JList(PageRecords(src, page)),
              link |-> LinkHeader(src.style[page], src.next[page])]

\* api_collector.py:205-214  _parse_link_next: the header split at ",", the
\* first part holding rel="next" taken, its text before ";" stripped of white
\* space and of "<" and ">"; <<>> stands for None and for ""
parse_link_next(link_header) ==
    LET RECURSIVE Before(_, _)
        Before(s, sep) ==
            IF s = <<>> \/ Head(s) = sep THEN <<>>
            ELSE <<Head(s)>> \o Before(Tail(s), sep)
        RECURSIVE Strip(_, _)
        Strip(s, chars) ==
            IF s # <<>> /\ Head(s) \in chars THEN Strip(Tail(s), chars)
            ELSE IF s # <<>> /\ s[Len(s)] \in chars
            THEN Strip(SubSeq(s, 1, Len(s) - 1), chars)
            ELSE s
        \* str.split(","): the parts in order
        RECURSIVE Parts(_)
        Parts(s) ==
            LET first == Before(s, ",")
            IN  IF Len(first) = Len(s) THEN <<first>>
                ELSE <<first>> \o Parts(SubSeq(s, Len(first) + 2, Len(s)))
        RECURSIVE FirstNext(_)
        FirstNext(parts) ==
            IF parts = <<>> THEN <<>>
            ELSE LET part == Strip(Head(parts), {" "})
                 IN  IF \E i \in DOMAIN part : part[i] = RelNext
                     THEN Strip(Strip(Before(part, ";"), {" "}), {"<", ">"})
                     ELSE FirstNext(Tail(parts))
    IN  IF link_header = <<>> THEN <<>> ELSE FirstNext(Parts(link_header))

\* api_collector.py:147  _fetch_link_paginated up to its loop
LinkStart(src) ==
    [mode |-> "link", src |-> src, next_url |-> SourceUrl, params |-> TRUE,
     requests |-> <<>>, yielded |-> <<>>, raised |-> None, pc |-> "loop"]

\* api_collector.py:149-162  one iteration of the while loop: request (with
\* the parameters the first time only), parse, extract, yield, read the Link
\* header; the loop ends when there is no next URL
FetchLinkPage ==
    /\ pag.mode = "link"
    /\ pag.pc = "loop"
    /\ LET resp == ServeLink(pag.src, pag.next_url)
           records == ExtractRecords(resp.body).records
           next_url == parse_link_next(resp.link)
       IN  IF resp.raised # None
           THEN pag' = [pag EXCEPT !.raised = resp.raised, !.pc = "done"]
           ELSE pag' = [pag EXCEPT
                           !.requests = Append(@, [url |-> pag.next_url,
                                                   params |-> pag.params]),
                           !.params = FALSE,
                           !.yielded = @ \o records,
                           !.next_url = next_url,
                           !.pc = IF next_url = <<>> THEN "done" ELSE "loop"]
    /\ UNCHANGED <<jobstate, fn, aps>>

InitLink ==
    /\ NoJobs
    /\ fn = FnOff
    /\ aps = ApsOff
    /\ \E src \in LinkSources : pag = LinkStart(src)

SpecLink == InitLink /\ [][FetchLinkPage]_vars

(* ------------- BaseCollector: rate limiter and fetch_url -------------- *)

\* The collector instances alive at once, and the requests-per-minute their
\* sources are configured with (intervals of 1, 2 and 3 seconds).
Collectors == {"c1", "c2"}
RateLimits == {60, 30, 20}

\* requests.exceptions: the classes an exception of session.request is an
\* instance of.
ExceptionBases ==
    [ReadTimeout |-> {"ReadTimeout", "Timeout", "RequestException"},
     ConnectTimeout |-> {"ConnectTimeout", "ConnectionError", "Timeout",
                         "RequestException"},
     ConnectionError |-> {"ConnectionError", "RequestException"},
     SSLError |-> {"SSLError", "ConnectionError", "RequestException"},
     HTTPError |-> {"HTTPError", "RequestException"},
     TooManyRedirects |-> {"TooManyRedirects", "RequestException"},
     ChunkedEncodingError |-> {"ChunkedEncodingError", "RequestException"}]

\* What the upstream does with one fetch: it answers `busy` attempts with
\* 503, then the attempt after them ends with a status or an exception.
ServerBehaviours ==
    [busy : 0..(DEFAULT_MAX_RETRIES + 1),
     final : {[raised |-> None, status |-> st] : st \in {200, 204, 404, 429}}
             \cup {[raised |-> e, status |-> 0] :
                      e \in DOMAIN ExceptionBases \ {"HTTPError"}}]

\* base.py:118-124  the session's Retry: an answer whose status is in the
\* force list is retried `total` times; raise_on_status=False then returns
\* the last response
session_request(server) ==
    IF server.busy > DEFAULT_MAX_RETRIES
    THEN [raised |-> None, status |-> 503]
    ELSE server.final

\* base.py:190-205  the try block of fetch_url and its except clauses
fetch_url_outcome(server) ==
    LET resp == session_request(server)
        \* Response.raise_for_status
        raised == IF resp.raised = None /\ resp.status >= 400
                  THEN "HTTPError" ELSE resp.raised
        IsInstance(class) == class \in ExceptionBases[raised]
    IN  IF raised = None THEN [raised |-> None, status |-> resp.status]
        ELSE IF IsInstance("Timeout") \/ IsInstance("ConnectionError") \/ IsInstance("HTTPError")
        THEN [raised |-> "CollectionError", status |-> 0]
        ELSE [raised |-> raised, status |-> 0]

\* base.py:159-167  _rate_limit: the time the call returns at, having slept
\* the rest of the interval since the last request time
rate_limit(last_request_time, rpm, clock) ==
    IF rpm <= 0 THEN clock
    ELSE LET min_interval == 60 \div rpm
             elapsed == clock - last_request_time
         IN  IF elapsed < min_interval THEN clock + (min_interval - elapsed)
             ELSE clock

\* base.py:36-46  __init__ of every collector; the monotonic clock is
\* anywhere
HttpStart(rpm, clock) ==
    [mode |-> "http", clock |-> clock,
     coll |-> [c \in Collectors |->
                   [rpm |-> rpm[c], last_request_time |-> 0, sent |-> <<>>]],
     outcome |-> [raised |-> None, status |-> 0]]

\* Time passes.
Tick ==
    /\ pag.mode = "http"
    /\ pag.clock < MaxClock
    /\ pag' = [pag EXCEPT !.clock = @ + 1]
    /\ UNCHANGED <<jobstate, fn, aps>>

\* base.py:177-205  fetch_url: the rate limiter, then the request
FetchUrl(c) ==
    /\ pag.mode = "http"
    /\ Len(pag.coll[c].sent) < MaxRequests
    /\ LET at == rate_limit(pag.coll[c].last_request_time, pag.coll[c].rpm,
                            pag.clock)
       IN  /\ at <= MaxClock
           /\ \E server \in ServerBehaviours :
                 pag' = [pag EXCEPT
                            !.clock = at,
                            !.coll[c].last_request_time = at,
                            !.coll[c].sent = Append(@, [at |-> at, by |-> "fetch_url"]),
                            !.outcome = fetch_url_outcome(server)]
    /\ UNCHANGED <<jobstate, fn, aps>>

\* base.py:60-77  test_connection: session.get, every exception caught
TestConnection(c) ==
    /\ pag.mode = "http"
    /\ Len(pag.coll[c].sent) < MaxRequests
    /\ pag' = [pag EXCEPT
                  !.coll[c].sent = Append(@, [at |-> pag.clock,
                                              by |-> "test_connection"])]
    /\ UNCHANGED <<jobstate, fn, aps>>

\* csv_collector.py:123-146  collect_chunked: session.get of the whole file
CollectChunked(c) ==
    /\ pag.mode = "http"
    /\ Len(pag.coll[c].sent) < MaxRequests
    /\ pag' = [pag EXCEPT
                  !.coll[c].sent = Append(@, [at |-> pag.clock,
                                              by |-> "collect_chunked"])]
    /\ UNCHANGED <<jobstate, fn, aps>>

InitHttp ==
    /\ NoJobs
    /\ fn = FnOff
    /\ aps = ApsOff
    /\ \E rpm \in [Collectors -> RateLimits], clock \in 0..MaxClock :
           pag = HttpStart(rpm, clock)

NextHttp ==
    \/ Tick
    \/ \E c \in Collectors : FetchUrl(c)
    \/ \E c \in Collectors : TestConnection(c)
    \/ \E c \in Collectors : CollectChunked(c)

SpecHttp == InitHttp /\ [][NextHttp]_vars

(* ------------------ SchedulerManager: sync_schedules ------------------ *)

\* The schedule_id strings and the data_sources ids of the schedule table.
ScheduleKeys == {"s1", "s2"}
SourceIds == {1, 2}

\* What a schedule row holds for its cadence: schedule_type with
\* interval_value (0 for NULL; interval_unit is hours, the cron fields are
\* left at their defaults). "monthly" is a type the API stores and
\* _build_trigger does not know.
Cadences ==
    {[schedule_type |-> "cron", interval_value |-> 0],
     [schedule_type |-> "interval", interval_value |-> 0],
     [schedule_type |-> "interval", interval_value |-> 12],
     [schedule_type |-> "monthly", interval_value |-> 0]}

NoSchedule == [id |-> 0]
NoTrigger == [type |-> None, value |-> 0]
NoJob == [live |-> FALSE]

\* manager.py:100  job_id = f"collect_{sched.schedule_id}": a job id is its
\* prefix and the rest
job_id(schedule_id) == <<"collect_", schedule_id>>

\* A job of the store that no schedule stands behind.
OtherJobId == <<"purge_", "logs">>
OtherJob ==
    [live |-> TRUE, trigger |-> [type |-> "interval", value |-> 24],
     kwargs |-> [source_db_id |-> 0, schedule_db_id |-> 0]]

JobIds == {job_id(k) : k \in ScheduleKeys} \cup {OtherJobId}

\* manager.py:149-170  _build_trigger
build_trigger(schedule) ==
    IF schedule.schedule_type = "cron"
    THEN [type |-> "cron", value |-> 0]
    ELSE IF schedule.schedule_type = "interval"
    THEN [type |-> "interval",
          value |-> IF schedule.interval_value = 0 THEN 24
                    ELSE schedule.interval_value]
    ELSE NoTrigger

\* The job left as it is when it exists already.
upsert_job_AddOnly(jobs, schedule, id) ==
    LET trigger_kwargs == build_trigger(schedule)
    IN  IF trigger_kwargs = NoTrigger \/ jobs[id].live THEN jobs
        ELSE [jobs EXCEPT ![id] =
                 [live |-> TRUE, trigger |-> trigger_kwargs,
                  kwargs |-> [source_db_id |-> schedule.source_id,
                              schedule_db_id |-> schedule.id]]]

\* manager.py:111-147  _upsert_job: the job store after it; reschedule_job
\* replaces the trigger of the stored job, add_job stores a new job
upsert_job(jobs, schedule, id) ==
    LET trigger_kwargs == build_trigger(schedule)
    IN  IF trigger_kwargs = NoTrigger THEN jobs
        ELSE IF jobs[id].live
        THEN [jobs EXCEPT ![id].trigger = trigger_kwargs]
        ELSE [jobs EXCEPT ![id] =
                 [live |-> TRUE, trigger |-> trigger_kwargs,
                  kwargs |-> [source_db_id |-> schedule.source_id,
                              schedule_db_id |-> schedule.id]]]

\* No job is stale.
IsStale_Never(id, active_job_ids) == FALSE

\* manager.py:107  job.id not in active_job_ids and
\* job.id.startswith("collect_")
IsStale(id, active_job_ids) == id \notin active_job_ids /\ id[1] = "collect_"

\* manager.py:36-37, 72-77  a manager over an empty schedule table; the job
\* store holds the job that is not a collection
SyncStart ==
    [mode |-> "sync",
     db |-> [k \in ScheduleKeys |-> NoSchedule], next_id |-> 1,
     jobs |-> [id \in JobIds |-> IF id = OtherJobId THEN OtherJob ELSE NoJob],
     pc |-> "idle", todo |-> <<>>, active_job_ids |-> {},
     before |-> {}, changed |-> {}, returned |-> FALSE]

\* The table is edited between two syncs: what the last sync did is
\* forgotten.
Edited(db, next_id) ==
    [aps EXCEPT !.db = db, !.next_id = next_id, !.active_job_ids = {},
                !.before = {}, !.changed = {}, !.returned = FALSE]

\* dashboard/routes/api.py:229-255  POST /api/schedules
CreateSchedule(k, source_id, cadence) ==
    /\ aps.mode = "sync" /\ aps.pc = "idle"
    /\ aps.db[k] = NoSchedule
    /\ aps.next_id <= MaxRows
    /\ aps' = Edited([aps.db EXCEPT ![k] =
                         [id |-> aps.next_id, enabled |-> TRUE,
                          schedule_type |-> cadence.schedule_type,
                          interval_value |-> cadence.interval_value,
                          source_id |-> source_id]],
                     aps.next_id + 1)
    /\ UNCHANGED <<jobstate, pag, fn>>

\* dashboard/routes/api.py:258-274  PUT /api/schedules/<id>
UpdateSchedule(k, cadence) ==
    /\ aps.mode = "sync" /\ aps.pc = "idle"
    /\ aps.db[k] # NoSchedule
    /\ aps' = Edited([aps.db EXCEPT
                         ![k].schedule_type = cadence.schedule_type,
                         ![k].interval_value = cadence.interval_value],
                     aps.next_id)
    /\ UNCHANGED <<jobstate, pag, fn>>

\* dashboard/routes/api.py:287-294  POST /api/schedules/<id>/toggle
ToggleSchedule(k) ==
    /\ aps.mode = "sync" /\ aps.pc = "idle"
    /\ aps.db[k] # NoSchedule
    /\ aps' = Edited([aps.db EXCEPT ![k].enabled = ~@], aps.next_id)
    /\ UNCHANGED <<jobstate, pag, fn>>

\* dashboard/routes/api.py:277-284  DELETE /api/schedules/<id>
DeleteSchedule(k) ==
    /\ aps.mode = "sync" /\ aps.pc = "idle"
    /\ aps.db[k] # NoSchedule
    /\ aps' = Edited([aps.db EXCEPT ![k] = NoSchedule], aps.next_id)
    /\ UNCHANGED <<jobstate, pag, fn>>

\* scripts/seed_sources.py:96-137  seed_schedules with force: the existing
\* row is given the source of the seed file
SeedSchedule(k, source_id) ==
    /\ aps.mode = "sync" /\ aps.pc = "idle"
    /\ aps.db[k] # NoSchedule
    /\ aps.db[k].source_id # source_id
    /\ aps' = Edited([aps.db EXCEPT ![k].source_id = source_id], aps.next_id)
    /\ UNCHANGED <<jobstate, pag, fn>>

\* manager.py:90-98  sync_schedules: the query of the enabled schedules
SyncQuery ==
    /\ aps.mode = "sync" /\ aps.pc = "idle"
    /\ LET enabled == {k \in ScheduleKeys :
                          aps.db[k] # NoSchedule /\ aps.db[k].enabled}
           RECURSIVE Listed(_)
           Listed(keys) ==
               IF keys = {} THEN <<>>
               ELSE LET k == CHOOSE x \in keys :
                                 \A y \in keys : aps.db[x].id <= aps.db[y].id
                    IN  <<[schedule_id |-> k, row |-> aps.db[k]]>>
                            \o Listed(keys \ {k})
       IN  aps' = [aps EXCEPT
                      !.pc = IF enabled = {} THEN "remove" ELSE "upsert",
                      !.todo = Listed(enabled),
                      !.active_job_ids = {},
                      !.before = {id \in JobIds : aps.jobs[id].live},
                      !.changed = {},
                      !.returned = FALSE]
    /\ UNCHANGED <<jobstate, pag, fn>>

\* manager.py:99-102  one iteration of the loop over the schedules
SyncUpsert ==
    /\ aps.mode = "sync" /\ aps.pc = "upsert"
    /\ LET sched == Head(aps.todo)
           id == job_id(sched.schedule_id)
           jobs == upsert_job(aps.jobs, sched.row, id)
       IN  aps' = [aps EXCEPT
                      !.jobs = jobs,
                      !.active_job_ids = @ \cup {id},
                      !.changed = IF aps.jobs[id].live /\ jobs[id] # aps.jobs[id]
                                  THEN @ \cup {id} ELSE @,
                      !.todo = Tail(@),
                      !.pc = IF Tail(aps.todo) = <<>> THEN "remove" ELSE "upsert"]
    /\ UNCHANGED <<jobstate, pag, fn>>

\* manager.py:104-109  the jobs of disabled and deleted schedules removed,
\* and the return
SyncRemoveStale ==
    /\ aps.mode = "sync" /\ aps.pc = "remove"
    /\ aps' = [aps EXCEPT
                  !.jobs = [id \in JobIds |->
                               IF aps.jobs[id].live /\ IsStale(id, aps.active_job_ids)
                               THEN NoJob ELSE aps.jobs[id]],
                  !.pc = "idle",
                  !.returned = TRUE]
    /\ UNCHANGED <<jobstate, pag, fn>>

InitSync ==
    /\ NoJobs
    /\ pag = PagOff
    /\ fn = FnOff
    /\ aps = SyncStart

NextSync ==
    \/ \E k \in ScheduleKeys, src \in SourceIds, c \in Cadences :
           CreateSchedule(k, src, c)
    \/ \E k \in ScheduleKeys, c \in Cadences : UpdateSchedule(k, c)
    \/ \E k \in ScheduleKeys : ToggleSchedule(k)
    \/ \E k \in ScheduleKeys : DeleteSchedule(k)
    \/ \E k \in ScheduleKeys, src \in SourceIds : SeedSchedule(k, src)
    \/ SyncQuery
    \/ SyncUpsert
    \/ SyncRemoveStale

SpecSync == InitSync /\ [][NextSync]_vars

(* --------------- SchedulerManager: executor and stop ------------------ *)

\* The live triggers of the running scheduler.
ExecJobs == {job_id(k) : k \in {"s1", "s2", "s3"}}

\* The executions of a job in the pool, running or queued.
Instances(pool, id) == Cardinality({i \in DOMAIN pool : pool[i] = id})

\* Every firing submitted.
CanSubmit_Always(pool, id) == TRUE

\* manager.py:52  job_defaults max_instances: the executor refuses a job
\* that has that many executions in the pool
CanSubmit(pool, id) == Instances(pool, id) < max_instances

\* manager.py:71-77  the manager after start(): the scheduler runs, nothing
\* is in its pool, no request thread of the dashboard collects
ExecStart ==
    [mode |-> "exec", state |-> "running", pool |-> <<>>, skipped |-> {},
     manual |-> 0, owed |-> 0, stop |-> "none", late |-> FALSE,
     exited |-> FALSE, killed |-> 0]

\* A trigger is due: run_collection_job is submitted to the thread pool, or
\* the firing is skipped when max_instances executions are in it.
Fire(id) ==
    /\ aps.mode = "exec" /\ ~aps.exited
    /\ aps.state = "running"
    /\ IF CanSubmit(aps.pool, id)
       THEN aps' = [aps EXCEPT !.pool = Append(@, id),
                               !.late = @ \/ aps.stop # "none"]
       ELSE aps' = [aps EXCEPT !.skipped = @ \cup {id}]
    /\ UNCHANGED <<jobstate, pag, fn>>

\* manager.py:46-48  one of the max_workers executions that have a thread
\* ends; the oldest queued one gets the thread
JobDone(i) ==
    /\ aps.mode = "exec" /\ ~aps.exited
    /\ i \in DOMAIN aps.pool /\ i <= max_workers
    /\ aps' = [aps EXCEPT !.pool = SubSeq(@, 1, i - 1) \o SubSeq(@, i + 1, Len(@))]
    /\ UNCHANGED <<jobstate, pag, fn>>

\* dashboard/routes/api.py:187-195  POST /api/sources/<id>/run:
\* run_collection_job in the request thread
ManualStart ==
    /\ aps.mode = "exec" /\ ~aps.exited
    /\ aps.manual < MaxManual
    /\ aps' = [aps EXCEPT !.manual = @ + 1]
    /\ UNCHANGED <<jobstate, pag, fn>>

\* The run of a request thread ends: one that was in flight when stop was
\* called (owed) or a later one.
ManualDone ==
    /\ aps.mode = "exec" /\ ~aps.exited
    /\ aps.manual > 0
    /\ \/ aps.owed > 0 /\ aps' = [aps EXCEPT !.manual = @ - 1, !.owed = @ - 1]
       \/ aps.manual > aps.owed /\ aps' = [aps EXCEPT !.manual = @ - 1]
    /\ UNCHANGED <<jobstate, pag, fn>>

\* manager.py:79-82  stop is called: shutdown(wait=True) stops the scheduler
\* and begins to wait for its executor
StopCall ==
    /\ aps.mode = "exec" /\ ~aps.exited
    /\ aps.stop = "none"
    /\ aps.state = "running"
    /\ aps' = [aps EXCEPT !.state = "stopped", !.stop = "waiting",
                          !.owed = aps.manual]
    /\ UNCHANGED <<jobstate, pag, fn>>

\* manager.py:82-83  shutdown(wait=True) returns when the pool is empty,
\* and stop returns
StopReturn ==
    /\ aps.mode = "exec" /\ ~aps.exited
    /\ aps.stop = "waiting"
    /\ aps.pool = <<>>
    /\ aps' = [aps EXCEPT !.stop = "returned"]
    /\ UNCHANGED <<jobstate, pag, fn>>

\* main.py:185-188  _shutdown of run_all after stop: sys.exit(0); the request
\* threads are daemon threads and end with the process, wherever they are
Exit ==
    /\ aps.mode = "exec" /\ ~aps.exited
    /\ aps.stop = "returned"
    /\ aps' = [aps EXCEPT !.exited = TRUE, !.killed = aps.manual,
                          !.manual = 0]
    /\ UNCHANGED <<jobstate, pag, fn>>

InitExec ==
    /\ NoJobs
    /\ pag = PagOff
    /\ fn = FnOff
    /\ aps = ExecStart

NextExec ==
    \/ \E id \in ExecJobs : Fire(id)
    \/ \E i \in 1..max_workers : JobDone(i)
    \/ ManualStart
    \/ ManualDone
    \/ StopCall
    \/ StopReturn
    \/ Exit

SpecExec == InitExec /\ [][NextExec]_vars

(* ================================ claims =============================== *)

RunOf(j) == runs[job[j].run_id]

\* C1: when the collector yields k records and then raises, the job ends with
\* status failed, records_fetched = k, records_stored = 500 * floor(k / 500)
\* and a non-empty error message, in the returned summary and in the run row,
\* and no exception leaves run_collection_job.
C1_PartialFailureAccounting ==
    \A j \in Jobs :
        hist[j].cause = "collector" =>
            /\ pc[j] # "raised"
            /\ pc[j] = "returned" =>
                 LET k == hist[j].yielded
                 IN  /\ result[j].kind = "return"
                     /\ result[j].status = "failed"
                     /\ result[j].records_fetched = k
                     /\ result[j].records_stored = 500 * (k \div 500)
                     /\ result[j].error \notin {None, ""}
                     /\ HasRun(runs, job[j].run_id)
                     /\ RunOf(j).status = "failed"
                     /\ RunOf(j).records_fetched = k
                     /\ RunOf(j).records_stored = 500 * (k \div 500)
                     /\ RunOf(j).error_message \notin {None, ""}

\* A collector that yielded 1200 records and raised on the 1201st: the job
\* returned with two batches stored.
C1_Witness ==
    \E j \in Jobs :
        /\ pc[j] = "returned"
        /\ hist[j].cause = "collector"
        /\ hist[j].yielded = 1200
        /\ result[j].records_stored = 1000
        /\ RunOf(j).status = "failed"

\* C2: for an enabled source, an exception raised by the collector, by the
\* normalizer or by a batch flush is caught by the job: the summary returned has
\* status failed and the exception's message as its error, the run row is
\* finalized failed with the same message, and nothing is raised to the caller
\* (only a source id with no row makes run_collection_job raise).
C2_ExceptionsBecomeFailedRun ==
    \A j \in Jobs :
        /\ pc[j] = "raised" => job[j].source_db_id \notin DOMAIN sources
        /\ hist[j].cause # "none" =>
            /\ hist[j].exc # None
            /\ pc[j] \in {"finalize", "returned"}
            /\ job[j].status = "failed"
            /\ job[j].error_message = hist[j].exc
            /\ pc[j] = "returned" =>
                 /\ result[j].kind = "return"
                 /\ result[j].status = "failed"
                 /\ result[j].error = hist[j].exc
                 /\ HasRun(runs, job[j].run_id)
                 /\ RunOf(j).status = "failed"
                 /\ RunOf(j).completed_at # 0
                 /\ RunOf(j).error_message = hist[j].exc

\* A job returned after its normalizer raised on the 701st record.
C2_Witness ==
    \E j \in Jobs :
        /\ pc[j] = "returned"
        /\ hist[j].cause = "normalizer"
        /\ result[j].records_fetched = 701
        /\ result[j].error \in NormalizerErrors
        /\ RunOf(j).error_message \in NormalizerErrors

\* C3: a job invoked on a disabled source returns status skipped and leaves the
\* persisted state as it was: no run row, no log entry, no record, no change of
\* a schedule's last_run.
C3_DisabledSourceIsNoOp ==
    [][\A j \in Jobs :
          ( /\ pc[j] = "idle"
            /\ pc'[j] # "idle"
            /\ job'[j].source_db_id \in DOMAIN sources
            /\ ~sources[job'[j].source_db_id].enabled )
          => /\ pc'[j] = "returned"
             /\ result'[j].kind = "return"
             /\ result'[j].status = "skipped"
             /\ result'[j].run_id = 0
             /\ UNCHANGED <<sources, schedules, runs, raw_records, logs>>]_vars

\* A job invoked with a schedule id on the disabled source returned skipped.
C3_Witness ==
    \E j \in Jobs :
        /\ pc[j] = "returned"
        /\ result[j].status = "skipped"
        /\ ~sources[job[j].source_db_id].enabled
        /\ job[j].schedule_db_id # 0
        /\ runs = <<>>

\* C4: whenever the collector of a job has sent a request, and at every later
\* point of the job including a crash, the job's run row is in the table, for
\* the job's source, and it reads running until the job itself finalizes it.
C4_RunRowBeforeFirstRequest ==
    \A j \in Jobs :
        (hist[j].requested \/ pc[j] \in InProgress \cup {"crashed"}) =>
            /\ HasRun(runs, job[j].run_id)
            /\ RunOf(j).source_id = job[j].source_db_id
            /\ pc[j] # "returned" => /\ RunOf(j).status = "running"
                                     /\ RunOf(j).completed_at = 0

\* A job crashed after its collector had sent requests; its run row reads running.
C4_Witness ==
    \E j \in Jobs :
        /\ pc[j] = "crashed"
        /\ hist[j].requested
        /\ HasRun(runs, job[j].run_id)
        /\ RunOf(j).status = "running"

LogsOf(id) == {i \in DOMAIN logs : logs[i].run_id = id}

\* C5: a run row is inserted as running; its status only moves from running to
\* success or failed; a row is changed only by the finalizing step of the one
\* job that holds its id; once completed_at is set the row never changes again.
C5_RunWrittenOnceByOwner ==
    [][/\ \A r \in DOMAIN runs' \ DOMAIN runs :
             /\ runs'[r].status = "running"
             /\ runs'[r].completed_at = 0
       /\ \A r \in DOMAIN runs :
             /\ r \in DOMAIN runs'
             /\ runs[r].completed_at # 0 => runs'[r] = runs[r]
             /\ runs'[r].status # runs[r].status =>
                   /\ runs[r].status = "running"
                   /\ runs'[r].status \in {"success", "failed"}
             /\ runs'[r] # runs[r] =>
                   /\ runs'[r].completed_at # 0
                   /\ \E j \in Jobs :
                         /\ job[j].run_id = r
                         /\ pc[j] = "finalize" /\ pc'[j] = "returned"
                         /\ \A i \in Jobs \ {j} : job[i].run_id # r
                                                  /\ pc'[i] = pc[i]]_vars

\* A run is completed while another job, on the same source, is still at work.
C5_Witness ==
    \E i, j \in Jobs :
        /\ pc[i] = "returned" /\ job[i].run_id # 0
        /\ RunOf(i).completed_at # 0
        /\ pc[j] \in {"collect", "flush", "finalize"}
        /\ job[j].source_db_id = job[i].source_db_id
        /\ hist[i].overlapped

\* C6: when the flush of a batch fails, none of that batch's records is in
\* raw_records, the batches the run flushed before are still there, and the
\* run is finalized failed with records_stored equal to the number of its
\* records in raw_records.
C6_FailedFlushKeepsEarlierBatches ==
    \A j \in Jobs :
        hist[j].cause = "flush" =>
            /\ Rows(raw_records, RowKey(job[j])) = hist[j].committed
            /\ hist[j].committed + job[j].batch = hist[j].yielded
            /\ job[j].batch > 0
            /\ job[j].records_stored = hist[j].committed
            /\ pc[j] = "returned" =>
                 /\ RunOf(j).status = "failed"
                 /\ RunOf(j).completed_at # 0
                 /\ RunOf(j).records_stored = Rows(raw_records, RowKey(job[j]))
                 /\ result[j].records_stored = Rows(raw_records, RowKey(job[j]))

\* The second full batch of a run failed to flush: the first is stored.
C6_Witness ==
    \E j \in Jobs :
        /\ pc[j] = "returned"
        /\ hist[j].cause = "flush"
        /\ hist[j].yielded = 1000
        /\ Rows(raw_records, RowKey(job[j])) = 500
        /\ RunOf(j).records_stored = 500

WithRun(j) == pc[j] = "returned" /\ job[j].run_id # 0

C8_FinalizedExactlyOnce ==
    /\ \A r \in DOMAIN runs :
          /\ Cardinality(LogsOf(r)) <= 1
          /\ runs[r].completed_at = 0 <=> LogsOf(r) = {}
          /\ runs[r].completed_at = 0 <=> runs[r].status = "running"
    /\ \A j \in Jobs :
          WithRun(j) =>
              /\ HasRun(runs, job[j].run_id)
              /\ RunOf(j).completed_at # 0
              /\ RunOf(j).status = result[j].status
              /\ RunOf(j).status \in {"success", "failed"}
              /\ RunOf(j).records_fetched = job[j].records_fetched
              /\ RunOf(j).records_stored = job[j].records_stored
              /\ RunOf(j).records_skipped = job[j].records_skipped
              /\ Cardinality(LogsOf(job[j].run_id)) = 1
              /\ \A i \in LogsOf(job[j].run_id) :
                    /\ logs[i].source_id = job[j].source_db_id
                    /\ logs[i].level = "ERROR" <=> RunOf(j).status # "success"
                    /\ logs[i].level \in {"INFO", "ERROR"}
              /\ job[j].schedule_db_id # 0 =>
                    schedules[job[j].schedule_db_id].last_run >= RunOf(j).completed_at

\* A failed job triggered by a schedule has returned: one ERROR row, last_run set.
C8_Witness ==
    \E j \in Jobs :
        /\ WithRun(j)
        /\ RunOf(j).status = "failed"
        /\ job[j].schedule_db_id # 0
        /\ schedules[job[j].schedule_db_id].last_run = RunOf(j).completed_at
        /\ \E l \in LogsOf(job[j].run_id) : logs[l].level = "ERROR"

KnownFormats == {"api", "json", "soda", "csv", "geojson"}
KnownPagTypes == {"none", "offset", "page", "cursor", "link"}

ConfigError(src) ==
    \/ ~sources[src].url
    \/ sources[src].format \notin KnownFormats
    \/ sources[src].pag_type \notin KnownPagTypes

CeilDiv(a, b) == (a + b - 1) \div b

\* C10: offset and page pagination over a source of N records served in pages
\* of P: every request but the last got a full page; once the loop has ended
\* the records yielded are 1..N in order, and the requests number ceil(N/P)
\* when the last page was short, ceil(N/P) + 1 when it was empty (N a multiple
\* of P, 0 included); the requests ask for offsets 0, P, 2P, ... or for the
\* pages start_page, start_page + 1, ...
C10_OffsetAndPagePagination ==
    pag.mode \in {"offset", "page"} =>
        /\ Len(pag.requests) <= CeilDiv(pag.N, pag.page_size) + 1
        /\ \A i \in DOMAIN pag.requests :
              pag.requests[i] = IF pag.mode = "offset"
                                THEN (i - 1) * pag.page_size
                                ELSE pag.start_page + i - 1
        /\ \A i \in DOMAIN pag.yielded : pag.yielded[i] = i
        /\ pag.pc = "loop" => Len(pag.yielded) = Len(pag.requests) * pag.page_size
        /\ pag.pc = "done" =>
              /\ Len(pag.yielded) = pag.N
              /\ Len(pag.requests) =
                    IF pag.N % pag.page_size # 0
                    THEN CeilDiv(pag.N, pag.page_size)
                    ELSE CeilDiv(pag.N, pag.page_size) + 1

\* Page pagination ended after an empty third page (N = 2P) having yielded
\* every record.
C10_Witness ==
    /\ pag.mode = "page"
    /\ pag.pc = "done"
    /\ pag.N = 2 * pag.page_size
    /\ pag.N > 0
    /\ Len(pag.requests) = 3
    /\ Len(pag.yielded) = pag.N

\* C11: SODACollector.collect against an endpoint holding N rows asks for
\* $offset 0, P, 2P, ... with $limit P, yields every row once and in order, and
\* stops after the first page that is shorter than P or empty; against 12,000
\* rows with P = 5000 it makes exactly 3 requests, getting 5000, 5000 and 2000
\* rows, and yields 12,000 records.
C11_SodaPagination ==
    pag.mode = "soda" =>
        /\ pag.raised = None
        /\ \A i \in DOMAIN pag.requests :
              /\ pag.requests[i].offset = (i - 1) * pag.page_size
              /\ pag.requests[i].limit = pag.page_size
        /\ \A i \in DOMAIN pag.yielded : pag.yielded[i] = i
        /\ \A i \in DOMAIN pag.pages :
              i < Len(pag.pages) => pag.pages[i] = pag.page_size
        /\ pag.pc = "loop" => Len(pag.yielded) = Len(pag.requests) * pag.page_size
        /\ pag.pc = "done" =>
              /\ Len(pag.yielded) = pag.N
              /\ pag.pages[Len(pag.pages)] < pag.page_size
              /\ (pag.N = ScenarioRows /\ pag.page_size = 5000) =>
                    pag.pages = <<5000, 5000, 2000>>

\* The scenario has ended with the descriptor naming no page size: three
\* requests at offsets 0, 5000 and 10000, and 12,000 records.
C11_Witness ==
    /\ pag.mode = "soda"
    /\ pag.pc = "done"
    /\ pag.N = ScenarioRows
    /\ Len(pag.requests) = 3
    /\ pag.requests[3] = [offset |-> 10000, limit |-> 5000]
    /\ pag.pages = <<5000, 5000, 2000>>
    /\ Len(pag.yielded) = 12000

\* The pages a source serves from page c on, up to and including the first
\* response with no cursor or with an empty page, or up to `fuel` pages.
RECURSIVE PathFrom(_, _, _)
PathFrom(src, c, fuel) ==
    IF fuel = 0 THEN <<>>
    ELSE IF src.next[c] = 0 \/ src.len[c] = 0 THEN <<c>>
    ELSE <<c>> \o PathFrom(src, src.next[c], fuel - 1)

Path(src) == PathFrom(src, 1, Len(src.next) + 1)

\* The source eventually answers with no cursor or with an empty page.
EventuallyEnds(src) ==
    LET last == Path(src)[Len(Path(src))]
    IN  src.next[last] = 0 \/ src.len[last] = 0

RECURSIVE Flatten(_)
Flatten(pages) == IF pages = <<>> THEN <<>> ELSE Head(pages) \o Flatten(Tail(pages))

\* C12: against a cursor-paginated source that eventually returns a response
\* with no cursor or an empty page, the collector sends no more requests than
\* the source has pages up to that response, sends each returned cursor as the
\* cursor parameter of the following request (none on the first), and ends
\* having yielded the records of every page up to and including that last
\* response, each once and in order.
C12_CursorPaginationEnds ==
    (pag.mode = "cursor" /\ EventuallyEnds(pag.src)) =>
        LET path == Path(pag.src) IN
        /\ Len(pag.requests) <= Len(path)
        /\ \A i \in DOMAIN pag.requests :
              /\ pag.requests[i] = IF i = 1 THEN 0 ELSE pag.returned[i - 1]
              /\ pag.returned[i] = pag.src.next[path[i]]
        /\ \A i \in DOMAIN pag.yielded :
              pag.yielded[i] = PageRecords(pag.src, path[i])
        /\ pag.pc = "done" =>
              /\ Len(pag.requests) = Len(path)
              /\ Flatten(pag.yielded) =
                    Flatten([i \in DOMAIN path |-> PageRecords(pag.src, path[i])])

\* The collector ended after two pages, the second served without a cursor,
\* having sent the first page's cursor and yielded the records of both.
C12_Witness ==
    /\ pag.mode = "cursor"
    /\ pag.pc = "done"
    /\ pag.requests = <<0, 2>>
    /\ pag.returned = <<2, 0>>
    /\ Flatten(pag.yielded) = <<<<1, 1>>, <<1, 2>>, <<2, 1>>>>

\* C13: cursor pagination comes to an end whatever the source answers, also
\* when every response carries the same cursor and a non-empty page.
C13_CursorLoopTerminates == <>(pag.pc = "done")

\* C14: whatever pagination descriptor a source is given, against an upstream
\* that ignores the pagination parameters APICollector.collect never raises
\* and comes to stop yielding records.
C14_WrongVariantOnlyStops == [](pag.raised = None) /\ <>(pag.pc = "done")

\* The bodies a collector is written for: a list of records or a known
\* wrapper (generic API), a list (SODA), a FeatureCollection with a list of
\* features or a Feature (GeoJSON).
Expected(collector, body) ==
    IF collector = "APICollector"
    THEN body.kind = "list"
         \/ (body.kind = "dict" /\ (ListKeys(body) # {} \/ ElasticHits(body).found))
    ELSE IF collector = "SODACollector" THEN body.kind = "list"
    ELSE /\ body.kind = "dict"
         /\ "type" \in DOMAIN body.fields
         /\ \/ body.fields["type"] = JStr("Feature")
            \/ /\ body.fields["type"] = JStr("FeatureCollection")
               /\ HoldsList(body, "features")

\* C15: in every collector variant a parsed response body whose top-level type
\* or shape is not one the collector expects makes collect() raise
\* CollectionError: never an empty record sequence, never another exception.
C15_UnexpectedShapeRaises ==
    (pag.mode = "shape" /\ pag.pc = "done" /\ ~Expected(pag.collector, pag.body))
        => pag.raised = "CollectionError"

\* A coordinate of a normalized record is present and within lo..hi.
Within(v, lo, hi) == v.kind = "num" /\ lo <= v.num /\ v.num <= hi

\* C16: the output of normalize has either both latitude and longitude
\* present, latitude in [-90, 90], longitude in [-180, 180] and not both zero,
\* or both absent.
C16_CoordinatesBothOrNeither ==
    (fn.op = "normalize" /\ fn.pc = "done" /\ fn.raised = None) =>
        LET lat == fn.normalized.latitude
            lon == fn.normalized.longitude
        IN  \/ lat = JNull /\ lon = JNull
            \/ /\ Within(lat, -90, 90)
               /\ Within(lon, -180, 180)
               /\ ~(lat.num = 0 /\ lon.num = 0)

\* C17: normalize raises for no raw record, whatever the types of its values.
C17_NormalizeNeverRaises ==
    (fn.op = "normalize" /\ fn.pc = "done") => fn.raised = None

\* C18: for each of the nine supported formats, the string that writes
\* 5 March 2024 in that format is parsed to the calendar date 2024-03-05.
C18_NineFormatsSameDate ==
    (/\ fn.op = "date"
     /\ fn.pc = "done"
     /\ fn.date = [year |-> 2024, month |-> 3, day |-> 5]
     /\ fn.suffix = <<>>)
        => fn.parsed = fn.date

\* C19: for every header h, applying _normalize_header to _normalize_header(h)
\* gives _normalize_header(h) again.
C19_NormalizeHeaderIdempotent ==
    (fn.op = "header" /\ fn.pc = "done") => fn.twice = fn.once

\* The key-value pairs a value holds, whatever the order of insertion: a
\* dict as the function from its keys to what its values hold.
RECURSIVE Mapping(_)
Mapping(v) ==
    CASE v.kind = "dict" ->
            LET keys == {v.pairs[i][1] : i \in DOMAIN v.pairs}
            IN  [kind |-> "dict",
                 at |-> [k \in keys |->
                            Mapping(v.pairs[CHOOSE i \in DOMAIN v.pairs : v.pairs[i][1] = k][2])]]
      [] v.kind = "list" -> [kind |-> "list", items |-> [i \in DOMAIN v.items |-> Mapping(v.items[i])]]
      [] OTHER -> v

\* C20: compute_hash gives the same hash for two raw records that hold the
\* same key-value pairs inserted in different orders, at every nesting level,
\* and different hashes for two records whose serializations differ.
C20_HashOrderIndependent ==
    (fn.op = "hash" /\ fn.pc = "done") =>
        /\ Mapping(fn.first) = Mapping(fn.second) => fn.hash1 = fn.hash2
        /\ dumps(fn.first) # dumps(fn.second) => fn.hash1 # fn.hash2

\* Two records that hold the same pairs, the outer and the nested dict both
\* inserted in another order, have been hashed.
C20_Witness ==
    /\ fn.op = "hash"
    /\ fn.pc = "done"
    /\ Len(fn.hash1) = 64
    /\ fn.hash1 = fn.hash2
    /\ Mapping(fn.first) = Mapping(fn.second)
    /\ fn.first.pairs[1][1] # fn.second.pairs[1][1]
    /\ \E i, j \in 1..2 :
          /\ fn.first.pairs[i][2].kind = "dict"
          /\ fn.second.pairs[j][2].kind = "dict"
          /\ fn.first.pairs[i][2] # fn.second.pairs[j][2]

\* C29: at the finalization of every run, successful or failed,
\* records_fetched = records_stored + records_skipped in the run row.
C29_CountsAccountForEveryRecord ==
    \A id \in DOMAIN runs :
        runs[id].status \in {"success", "failed"} =>
            runs[id].records_fetched
                = runs[id].records_stored + runs[id].records_skipped

\* C27: the $limit parameter of every request SODACollector.collect issues is
\* at most 5000, whatever page_size the pagination descriptor configures.
C27_SodaLimitAtMost5000 ==
    pag.mode = "soda" =>
        \A i \in DOMAIN pag.requests : pag.requests[i].limit <= SODA_LIMIT

\* The pages of a link-paginated source in the order its next relations
\* name them, from page p on.
RECURSIVE LinkPath(_, _)
LinkPath(src, p) ==
    IF src.next[p] = p THEN <<p>> ELSE <<p>> \o LinkPath(src, src.next[p])

\* C28: with link pagination the collector requests the configured URL with
\* the configured parameters, then, without them, each URL the rel="next"
\* relation of the previous response names; it yields every page's records in
\* order and ends at the first response without a next relation.
C28_LinkPaginationFollowsNext ==
    (pag.mode = "link" /\ pag.pc = "done") =>
        LET path == LinkPath(pag.src, 1)
        IN  /\ pag.raised = None
            /\ Len(pag.requests) = Len(path)
            /\ \A i \in DOMAIN path :
                  /\ pag.requests[i].params = (i = 1)
                  /\ ServeLink(pag.src, pag.requests[i].url).body
                         = JList(PageRecords(pag.src, path[i]))
            /\ pag.yielded = Flatten([i \in DOMAIN path |-> PageRecords(pag.src, path[i])])

\* C25: every HTTP request of a collector instance is preceded by the rate
\* limiter, two consecutive requests of one instance start at least 60/R
\* seconds apart, and the last request time of an instance is the time of
\* its own last request, whatever the other instances do.
C25_EveryRequestRateLimited ==
    pag.mode = "http" =>
        \A c \in Collectors :
            LET sent == pag.coll[c].sent
            IN  /\ \A i \in DOMAIN sent : sent[i].by = "fetch_url"
                /\ \A i \in DOMAIN sent :
                      i > 1 => sent[i].at - sent[i - 1].at >= 60 \div pag.coll[c].rpm
                /\ pag.coll[c].last_request_time
                      = IF sent = <<>> THEN 0 ELSE sent[Len(sent)].at

\* C26: fetch_url either returns a response whose status is no error or
\* raises CollectionError; no other exception leaves it.
C26_FetchUrlTwoOutcomes ==
    pag.mode = "http" =>
        \/ pag.outcome.raised = None /\ pag.outcome.status < 400
        \/ pag.outcome.raised = "CollectionError"

\* The schedules the database holds enabled.
EnabledKeys ==
    {k \in ScheduleKeys : aps.db[k] # NoSchedule /\ aps.db[k].enabled}

C22_NoStaleTriggerAfterSync ==
    (aps.mode = "sync" /\ aps.returned) =>
        /\ \A k \in ScheduleKeys \ EnabledKeys : ~aps.jobs[job_id(k)].live
        /\ aps.jobs[OtherJobId] = OtherJob

\* A sync has returned that removed the job of a disabled or deleted
\* schedule.
C22_Witness ==
    /\ aps.mode = "sync" /\ aps.returned
    /\ \E k \in ScheduleKeys \ EnabledKeys :
          job_id(k) \in aps.before /\ ~aps.jobs[job_id(k)].live
    /\ aps.jobs[OtherJobId].live

\* C30: when sync_schedules has returned every live trigger of an enabled
\* schedule calls run_collection_job with the source id and the schedule id
\* the schedule has in the database.
C30_TriggerCollectsCurrentSource ==
    (aps.mode = "sync" /\ aps.returned) =>
        \A k \in EnabledKeys :
            aps.jobs[job_id(k)].live =>
                aps.jobs[job_id(k)].kwargs
                    = [source_db_id |-> aps.db[k].source_id,
                       schedule_db_id |-> aps.db[k].id]

\* C23: at every moment at most 2 executions of the collection job of one
\* schedule are in flight; a trigger that fires while 2 are does not start a
\* third.
C23_AtMostTwoInFlight ==
    aps.mode = "exec" => \A id \in ExecJobs : Instances(aps.pool, id) <= 2

\* A firing of a trigger was skipped and two executions of its job are in
\* flight.
C23_Witness ==
    /\ aps.mode = "exec"
    /\ \E id \in aps.skipped : Instances(aps.pool, id) = 2

\* C24: once stop is called no trigger starts a job; stop has returned only
\* when every collection that was in flight at the call has ended; and no
\* collection is cut off before its end.
C24_StopWaitsForJobsInFlight ==
    aps.mode = "exec" =>
        /\ ~aps.late
        /\ aps.stop = "returned" => (aps.pool = <<>> /\ aps.owed = 0)
        /\ aps.killed = 0

====
